---------------------------- MODULE Spec2Model ----------------------------
(***************************************************************************)
(* A model of the jframe template engine: Tokenizer (src/src/tokenizer.js),*)
(* Parser (src/unnamed/part_000), Compiler (src/src/compiler.js), the      *)
(* helpers escapeHtml and deepGet (src/src/utils.js), the Renderer          *)
(* (src/src/renderer.js), the BindingManager (src/unnamed/part_001) and    *)
(* the rendering of Jframe into elements (src/index.js).                   *)
(*                                                                         *)
(* A JavaScript string is a sequence of one-character strings, and string  *)
(* positions are 0-based as in the source (At(s, i) is s[i]).  A value of  *)
(* JavaScript is a record tagged by its type (see "JavaScript values").    *)
(* A thrown Error is a result record whose err field is not "none".        *)
(***************************************************************************)
EXTENDS Integers, Sequences, FiniteSets, TLC

VARIABLES
    template,   \* the template string given to compile
    ctx,        \* the context object given to the render function
    pc,         \* the stage the pipeline is at
    tokens,     \* Tokenizer.tokenize's result
    ast,        \* Parser.parse's result
    loopIds,    \* the outcomes of Math.random().toString(36).substr(2, 9), in call order
    code,       \* the statements of the generated render function
    output,     \* the string the render function returned
    trace,      \* what the render function did, statement by statement
    error,      \* [stage, msg] of the Error thrown, msg = "none" when none was
    bindings,   \* BindingManager.bindings: bindingId -> [element, path]
    observed,   \* the properties of the data object that have the setter of
                \* _makeObservable: their place in the data object -> the setter's fullPath
    listeners,  \* the input listeners of each element: the paths they set, in order
    data,       \* the data object the elements are bound to
    shown,      \* what each bound element displays (value, checked or textContent)
    bound,      \* the <<element, path>> pairs of the bindElement calls since the last clear
    changed,    \* the paths whose value the last step changed
    innerHTML,  \* the content of each container element
    renderedElements,   \* Jframe.renderedElements: element -> [context, enableBinding, template]
    original,   \* the content each container had before it was first rendered
    compiled,   \* the last call of render or update: its element, the template text it
                \* compiled, and whether it threw
    calls       \* the number of bindElement, render and update calls made so far

pipeVars == <<template, ctx, pc, tokens, ast, loopIds, code, output, trace, error>>
bindVars == <<bindings, observed, listeners, data, shown, bound, changed>>
pageVars == <<innerHTML, renderedElements, original, compiled>>

vars == <<pipeVars, bindVars, pageVars, calls>>

-----------------------------------------------------------------------------
(* Strings *)

At(s, i) == s[i + 1]

Substring(s, from, to) == SubSeq(s, from + 1, to)

Slice(s, from) == SubSeq(s, from + 1, Len(s))

StartsWith(s, p) == Len(s) >= Len(p) /\ SubSeq(s, 1, Len(p)) = p

EndsWith(s, p) == Len(s) >= Len(p) /\ SubSeq(s, Len(s) - Len(p) + 1, Len(s)) = p

Includes(s, p) == \E i \in 0..(Len(s) - Len(p)) : SubSeq(s, i + 1, i + Len(p)) = p

SetMin(S) == CHOOSE x \in S : \A y \in S : x <= y

SetMax(S) == CHOOSE x \in S : \A y \in S : x >= y

\* String.prototype.indexOf(m, from): the first position >= from where m occurs, or -1
IndexOf(s, m, from) ==
    LET hits == {i \in from..(Len(s) - Len(m)) : SubSeq(s, i + 1, i + Len(m)) = m}
    IN  IF hits = {} THEN -1 ELSE SetMin(hits)

IsSpace(c) == c \in {" ", "\n", "\t"}

\* String.prototype.trim
Trim(s) ==
    LET keep == {i \in 1..Len(s) : ~IsSpace(s[i])}
    IN  IF keep = {} THEN <<>> ELSE SubSeq(s, SetMin(keep), SetMax(keep))

NoError == [stage |-> "none", msg |-> "none"]

-----------------------------------------------------------------------------
(* Tokenizer, src/src/tokenizer.js *)

\* _processExpression(expression, isRaw, tokens): the token pushed, or the Error thrown
ProcessExpression(expression, isRaw) ==
    IF isRaw
      THEN [err |-> "none", token |-> [type |-> "RAW", expression |-> expression]]
    ELSE IF StartsWith(expression, <<"#", "i", "f", " ">>)
      THEN LET condition == Trim(Slice(expression, 4))
           IN  IF condition = <<>>
                 THEN [err |-> "If directive requires a condition"]
                 ELSE [err |-> "none",
                       token |-> [type |-> "IF_START", condition |-> condition]]
    ELSE IF StartsWith(expression, <<"#", "e", "a", "c", "h", " ">>)
      THEN LET items == Trim(Slice(expression, 6))
           IN  IF items = <<>>
                 THEN [err |-> "Each directive requires an items expression"]
                 ELSE [err |-> "none",
                       token |-> [type |-> "EACH_START", items |-> items]]
    ELSE IF expression = <<"/", "i", "f">>
      THEN [err |-> "none", token |-> [type |-> "IF_END"]]
    ELSE IF expression = <<"/", "e", "a", "c", "h">>
      THEN [err |-> "none", token |-> [type |-> "EACH_END"]]
    ELSE IF StartsWith(expression, <<"/">>)
      THEN [err |-> "Unknown closing directive"]
    ELSE [err |-> "none", token |-> [type |-> "VAR", expression |-> expression]]

TextToken(textBuffer) == [type |-> "TEXT", value |-> textBuffer]

\* a flush that pushes the pending text even when it is empty
FlushTextAlways(toks, textBuffer) == Append(toks, TextToken(textBuffer))

\* the pending text is pushed as a TEXT token when it is not empty
FlushText(toks, textBuffer) ==
    IF Len(textBuffer) > 0 THEN Append(toks, TextToken(textBuffer)) ELSE toks

\* the while loop of tokenize, from `position` with `textBuffer` and the tokens so far
RECURSIVE ScanFrom(_, _, _, _)
ScanFrom(t, position, textBuffer, toks) ==
    IF position >= Len(t)
      THEN [err |-> "none", tokens |-> FlushText(toks, textBuffer)]
    ELSE IF At(t, position) = "{" /\ position + 1 < Len(t) /\ At(t, position + 1) = "{"
      THEN LET isRaw == position + 2 < Len(t) /\ At(t, position + 2) = "{"
               exprStart == IF isRaw THEN position + 3 ELSE position + 2
               closeMarker == IF isRaw THEN <<"}", "}", "}">> ELSE <<"}", "}">>
               Pushed(r, closeIndex) ==
                   IF r.err # "none" THEN [err |-> r.err]
                   ELSE ScanFrom(t, closeIndex + Len(closeMarker), <<>>,
                                 Append(FlushText(toks, textBuffer), r.token))
               Closed(closeIndex) ==
                   IF closeIndex = -1 THEN [err |-> "Unclosed expression"]
                   ELSE Pushed(ProcessExpression(
                                   Trim(Substring(t, exprStart, closeIndex)), isRaw),
                               closeIndex)
           IN  Closed(IndexOf(t, closeMarker, exprStart))
    ELSE ScanFrom(t, position + 1, Append(textBuffer, At(t, position)), toks)

\* tokenize(template)
Tokenize(t) ==
    IF Len(t) = 0 THEN [err |-> "none", tokens |-> <<>>] ELSE ScanFrom(t, 0, <<>>, <<>>)

-----------------------------------------------------------------------------
(* Parser, src/unnamed/part_000 *)

RECURSIVE ParseTokens(_, _, _)
RECURSIVE ParseBlock(_, _, _, _, _)

\* _parseTokens(tokens, startPosition), with the nodes collected so far
ParseTokens(toks, position, nodes) ==
    LET Pushed(blockResult) ==
            IF blockResult.err # "none" THEN [err |-> blockResult.err]
            ELSE ParseTokens(toks, blockResult.nextPosition, Append(nodes, blockResult.node))
    IN  IF position >= Len(toks)
          THEN [err |-> "none", nodes |-> nodes, position |-> position]
        ELSE CASE At(toks, position).type = "TEXT" ->
                    ParseTokens(toks, position + 1,
                        Append(nodes, [type |-> "Text", value |-> At(toks, position).value]))
               [] At(toks, position).type = "VAR" ->
                    ParseTokens(toks, position + 1,
                        Append(nodes, [type |-> "Variable",
                                       expression |-> At(toks, position).expression]))
               [] At(toks, position).type = "RAW" ->
                    ParseTokens(toks, position + 1,
                        Append(nodes, [type |-> "RawVariable",
                                       expression |-> At(toks, position).expression]))
               [] At(toks, position).type = "IF_START" ->
                    Pushed(ParseBlock(toks, position, "IF_START", "IF_END", "If"))
               [] At(toks, position).type = "EACH_START" ->
                    Pushed(ParseBlock(toks, position, "EACH_START", "EACH_END", "Each"))
               [] At(toks, position).type \in {"IF_END", "EACH_END"} ->
                    [err |-> "none", nodes |-> nodes, position |-> position]
               [] OTHER -> [err |-> "Unknown token type"]

\* _parseBlock that takes any token after the children for the closing one
ParseBlockAnyClose(toks, startPosition, startType, endType, nodeType) ==
    LET startToken == At(toks, startPosition)
        Wrapped(childResult) ==
            IF childResult.err # "none" THEN [err |-> childResult.err]
            ELSE IF childResult.position >= Len(toks)
              THEN [err |-> IF startType = "IF_START"
                              THEN "Unclosed {{#if}} directive"
                              ELSE "Unclosed {{#each}} directive"]
            ELSE [err |-> "none",
                  node |-> IF nodeType = "If"
                             THEN [type |-> "If",
                                   condition |-> startToken.condition,
                                   children |-> childResult.nodes]
                             ELSE [type |-> "Each",
                                   items |-> startToken.items,
                                   children |-> childResult.nodes],
                  nextPosition |-> childResult.position + 1]
    IN  Wrapped(ParseTokens(toks, startPosition + 1, <<>>))

\* _parseBlock(tokens, startPosition, startType, endType, nodeType)
ParseBlock(toks, startPosition, startType, endType, nodeType) ==
    LET startToken == At(toks, startPosition)
        Wrapped(childResult) ==
            IF childResult.err # "none" THEN [err |-> childResult.err]
            ELSE IF childResult.position >= Len(toks)
                    \/ At(toks, childResult.position).type # endType
              THEN [err |-> IF startType = "IF_START"
                              THEN "Unclosed {{#if}} directive"
                              ELSE "Unclosed {{#each}} directive"]
            ELSE [err |-> "none",
                  node |-> IF nodeType = "If"
                             THEN [type |-> "If",
                                   condition |-> startToken.condition,
                                   children |-> childResult.nodes]
                             ELSE [type |-> "Each",
                                   items |-> startToken.items,
                                   children |-> childResult.nodes],
                  nextPosition |-> childResult.position + 1]
    IN  IF startToken.type # startType
          THEN [err |-> "Expected start token"]
          ELSE Wrapped(ParseTokens(toks, startPosition + 1, <<>>))

\* a parse that would leave the texts of the top level out of the tree
ParseSkippingText(toks) ==
    LET parseResult == ParseTokens(toks, 0, <<>>)
    IN  IF parseResult.err # "none" THEN [err |-> parseResult.err]
        ELSE IF parseResult.position < Len(toks)
          THEN [err |-> "Unexpected tokens at end of template"]
        ELSE [err |-> "none",
              root |-> [type |-> "Root",
                        children |-> SelectSeq(parseResult.nodes,
                                               LAMBDA node : node.type # "Text")]]

\* parse(tokens)
Parse(toks) ==
    LET Rooted(parseResult) ==
            IF parseResult.err # "none" THEN [err |-> parseResult.err]
            ELSE IF parseResult.position < Len(toks)
              THEN [err |-> "Unexpected tokens at end of template"]
            ELSE [err |-> "none",
                  root |-> [type |-> "Root", children |-> parseResult.nodes]]
    IN  Rooted(ParseTokens(toks, 0, <<>>))

-----------------------------------------------------------------------------
(* JavaScript values.  An object is a function from its own property names  *)
(* (strings) to values; an array is a sequence of values.  Objects of a     *)
(* context carry no prototype properties (it is plain JSON data).           *)

Undefined == [t |-> "undefined"]
Null == [t |-> "null"]
NaN == [t |-> "NaN"]
Num(n) == [t |-> "number", n |-> n]
Str(s) == [t |-> "string", s |-> s]
Bool(b) == [t |-> "boolean", b |-> b]
Arr(a) == [t |-> "array", a |-> a]
Obj(o) == [t |-> "object", o |-> o]

\* v == null
IsNullish(v) == v.t \in {"undefined", "null"}

\* typeof v === 'object'
TypeofObject(v) == v.t \in {"null", "array", "object"}

\* Array.isArray(v)
IsArray(v) == v.t = "array"

Digits == <<"0", "1", "2", "3", "4", "5", "6", "7", "8", "9">>

IsDigit(c) == \E i \in 1..Len(Digits) : Digits[i] = c

DigitValue(c) == (CHOOSE i \in 1..Len(Digits) : Digits[i] = c) - 1

RECURSIVE NatToString(_)
NatToString(n) ==
    IF n < 10 THEN <<Digits[n + 1]>> ELSE NatToString(n \div 10) \o <<Digits[(n % 10) + 1]>>

IntToString(n) == IF n < 0 THEN <<"-">> \o NatToString(0 - n) ELSE NatToString(n)

RECURSIVE DigitsToNat(_)
DigitsToNat(s) ==
    IF s = <<>> THEN 0 ELSE 10 * DigitsToNat(SubSeq(s, 1, Len(s) - 1)) + DigitValue(s[Len(s)])

IsDigitString(s) == Len(s) > 0 /\ \A i \in 1..Len(s) : IsDigit(s[i])

RECURSIVE StringOf(_)
RECURSIVE JoinValues(_, _)

\* Array.prototype.join(","): null and undefined elements give the empty string
JoinValues(a, i) ==
    IF i > Len(a) THEN <<>>
    ELSE (IF i > 1 THEN <<",">> ELSE <<>>)
         \o (IF IsNullish(a[i]) THEN <<>> ELSE StringOf(a[i]))
         \o JoinValues(a, i + 1)

\* String(v)
StringOf(v) ==
    CASE v.t = "undefined" -> <<"u", "n", "d", "e", "f", "i", "n", "e", "d">>
      [] v.t = "null" -> <<"n", "u", "l", "l">>
      [] v.t = "NaN" -> <<"N", "a", "N">>
      [] v.t = "number" -> IntToString(v.n)
      [] v.t = "string" -> v.s
      [] v.t = "boolean" -> IF v.b THEN <<"t", "r", "u", "e">> ELSE <<"f", "a", "l", "s", "e">>
      [] v.t = "array" -> JoinValues(v.a, 1)
      [] v.t = "object" ->
            <<"[", "o", "b", "j", "e", "c", "t", " ", "O", "b", "j", "e", "c", "t", "]">>
      [] v.t = "function" -> v.src

\* the truth value of v in a condition
Truthy(v) ==
    CASE v.t \in {"undefined", "null", "NaN"} -> FALSE
      [] v.t = "number" -> v.n # 0
      [] v.t = "string" -> v.s # <<>>
      [] v.t = "boolean" -> v.b
      [] OTHER -> TRUE

\* v[key] for a v that is neither null nor undefined
GetProp(v, key) ==
    CASE v.t = "object" -> IF key \in DOMAIN v.o THEN v.o[key] ELSE Undefined
      [] v.t = "array" ->
            IF key = <<"l", "e", "n", "g", "t", "h">> THEN Num(Len(v.a))
            ELSE IF IsDigitString(key) /\ NatToString(DigitsToNat(key)) = key
                    /\ DigitsToNat(key) < Len(v.a)
              THEN v.a[DigitsToNat(key) + 1]
            ELSE Undefined
      [] v.t = "string" ->
            IF key = <<"l", "e", "n", "g", "t", "h">> THEN Num(Len(v.s))
            ELSE IF IsDigitString(key) /\ NatToString(DigitsToNat(key)) = key
                    /\ DigitsToNat(key) < Len(v.s)
              THEN Str(<<v.s[DigitsToNat(key) + 1]>>)
            ELSE Undefined
      [] OTHER -> Undefined

-----------------------------------------------------------------------------
(* Helpers, src/src/utils.js *)

\* String.prototype.replace(/c/g, rep) for a one-character pattern c
RECURSIVE ReplaceAll(_, _, _)
ReplaceAll(s, c, rep) ==
    IF s = <<>> THEN <<>>
    ELSE (IF Head(s) = c THEN rep ELSE <<Head(s)>>) \o ReplaceAll(Tail(s), c, rep)

EntAmp == <<"&", "a", "m", "p", ";">>
EntLt == <<"&", "l", "t", ";">>
EntGt == <<"&", "g", "t", ";">>
EntQuot == <<"&", "q", "u", "o", "t", ";">>
EntApos == <<"&", "#", "3", "9", ";">>

\* escapeHtml with the & replaced last, so that it escapes the entities made before it
EscapeHtmlAmpersandLast(str) ==
    IF IsNullish(str) THEN <<>>
    ELSE ReplaceAll(ReplaceAll(ReplaceAll(ReplaceAll(ReplaceAll(StringOf(str),
            "<", EntLt), ">", EntGt), "\"", EntQuot), "'", EntApos), "&", EntAmp)

\* escapeHtml(str)
EscapeHtml(str) ==
    IF IsNullish(str) THEN <<>>
    ELSE ReplaceAll(ReplaceAll(ReplaceAll(ReplaceAll(ReplaceAll(StringOf(str),
            "&", EntAmp), "<", EntLt), ">", EntGt), "\"", EntQuot), "'", EntApos)

\* String.prototype.split('.')
RECURSIVE SplitOn(_, _)
SplitOn(s, sep) ==
    LET i == IndexOf(s, <<sep>>, 0)
    IN  IF i = -1 THEN <<s>> ELSE <<Substring(s, 0, i)>> \o SplitOn(Slice(s, i + 1), sep)

\* the for loop of deepGet over the keys
RECURSIVE WalkKeys(_, _)
WalkKeys(result, keys) ==
    IF keys = <<>> THEN result
    ELSE IF IsNullish(result) \/ ~TypeofObject(result) THEN Undefined
    ELSE WalkKeys(GetProp(result, Head(keys)), Tail(keys))

\* deepGet(obj, path)
DeepGet(obj, path) ==
    IF ~Truthy(obj) \/ ~TypeofObject(obj) THEN Undefined
    ELSE IF path = <<>> THEN obj
    ELSE WalkKeys(obj, SplitOn(path, "."))

-----------------------------------------------------------------------------
(* JavaScript expressions.  The Compiler emits expression source text and  *)
(* has the engine parse it (new Function) and evaluate it; the model parses *)
(* and evaluates the same text, for the part of the expression grammar the  *)
(* templates of the model produce: literals, identifiers, this, member      *)
(* access, calls, function literals, unary ! and -, and the binary          *)
(* operators * / + - < <= > >= === !== && ||.                               *)

LowerCase == {"a", "b", "c", "d", "e", "f", "g", "h", "i", "j", "k", "l", "m",
              "n", "o", "p", "q", "r", "s", "t", "u", "v", "w", "x", "y", "z"}
UpperCase == {"A", "B", "C", "D", "E", "F", "G", "H", "I", "J", "K", "L", "M",
              "N", "O", "P", "Q", "R", "S", "T", "U", "V", "W", "X", "Y", "Z"}

\* [a-zA-Z_$]
IsIdentStart(c) == c \in LowerCase \cup UpperCase \cup {"_", "$"}

\* [a-zA-Z0-9_$]
IsIdentChar(c) == IsIdentStart(c) \/ IsDigit(c)

\* \w
IsWordChar(c) == c \in LowerCase \cup UpperCase \cup {"_"} \/ IsDigit(c)

InClass(c, class) ==
    CASE class = "space" -> IsSpace(c)
      [] class = "digit" -> IsDigit(c)
      [] class = "ident" -> IsIdentChar(c)
      [] class = "word" -> IsWordChar(c)

\* the position after the longest run of characters of `class` from pos
RECURSIVE RunEnd(_, _, _)
RunEnd(s, pos, class) ==
    IF pos < Len(s) /\ InClass(At(s, pos), class) THEN RunEnd(s, pos + 1, class) ELSE pos

SkipWs(s, pos) == RunEnd(s, pos, "space")

Fail == [ok |-> FALSE]

\* the operators of each binary precedence level, longest first
BinaryOps(level) ==
    CASE level = 1 -> << <<"|", "|">> >>
      [] level = 2 -> << <<"&", "&">> >>
      [] level = 3 -> << <<"=", "=", "=">>, <<"!", "=", "=">> >>
      [] level = 4 -> << <<"<", "=">>, <<">", "=">>, <<"<">>, <<">">> >>
      [] level = 5 -> << <<"+">>, <<"-">> >>
      [] level = 6 -> << <<"*">>, <<"/">> >>

TopLevel == 1
UnaryLevel == 7

\* the operator of `level` that the text has at pos, or <<>>
OperatorAt(s, pos, level) ==
    LET ops == BinaryOps(level)
        hit == {i \in 1..Len(ops) : StartsWith(Slice(s, pos), ops[i])}
    IN  IF hit = {} THEN <<>> ELSE ops[SetMin(hit)]

\* the body of a string literal opened at pos - 1 by quote q: [ok, val, pos after it]
RECURSIVE StringBody(_, _, _, _)
StringBody(s, pos, q, acc) ==
    IF pos >= Len(s) THEN Fail
    ELSE IF At(s, pos) = q THEN [ok |-> TRUE, val |-> acc, pos |-> pos + 1]
    ELSE IF At(s, pos) = "\\"
      THEN IF pos + 1 >= Len(s) THEN Fail
           ELSE StringBody(s, pos + 2, q,
                    Append(acc, IF At(s, pos + 1) = "n" THEN "\n"
                                ELSE IF At(s, pos + 1) = "t" THEN "\t"
                                ELSE At(s, pos + 1)))
    ELSE IF At(s, pos) = "\n" THEN Fail
    ELSE StringBody(s, pos + 1, q, Append(acc, At(s, pos)))

Keywords == { <<"t", "h", "i", "s">>,
              <<"f", "u", "n", "c", "t", "i", "o", "n">>,
              <<"r", "e", "t", "u", "r", "n">>,
              <<"v", "a", "r">>, <<"i", "f">>, <<"f", "o", "r">>, <<"n", "e", "w">> }

RECURSIVE ParseLevel(_, _, _)
RECURSIVE ParseTail(_, _, _, _)
RECURSIVE ParsePostfix(_, _, _)
RECURSIVE ParsePrimary(_, _)
RECURSIVE ParseArgs(_, _, _)

Found(node, pos) == [ok |-> TRUE, node |-> node, pos |-> pos]

\* a unary operator applied to the operand parsed as r
UnaryOf(op, r) ==
    IF ~r.ok THEN Fail ELSE Found([k |-> "un", op |-> op, arg |-> r.node], r.pos)

\* the suffixes of the primary expression parsed as r
SuffixesOf(s, r) == IF ~r.ok THEN Fail ELSE ParsePostfix(s, r.pos, r.node)

\* the operators of `level` after the left operand parsed as r
TailOf(s, level, r) == IF ~r.ok THEN Fail ELSE ParseTail(s, r.pos, level, r.node)

\* an expression of precedence `level` or tighter at pos: [ok, node, pos after it]
ParseLevelAt(s, pos, level) ==
    IF level = UnaryLevel
      THEN IF pos < Len(s) /\ At(s, pos) \in {"!", "-"}
             THEN UnaryOf(At(s, pos), ParseLevel(s, pos + 1, UnaryLevel))
             ELSE SuffixesOf(s, ParsePrimary(s, pos))
      ELSE TailOf(s, level, ParseLevel(s, pos, level + 1))

ParseLevel(s, pos, level) == ParseLevelAt(s, SkipWs(s, pos), level)

\* left op right, the right operand parsed as r, and the operators after it
BinaryOf(s, level, left, op, r) ==
    IF ~r.ok THEN Fail
    ELSE ParseTail(s, r.pos, level, [k |-> "bin", op |-> op, l |-> left, r |-> r.node])

ParseTailAt(s, pos0, pos, level, left, op) ==
    IF op = <<>> THEN Found(left, pos0)
    ELSE BinaryOf(s, level, left, op, ParseLevel(s, pos + Len(op), level + 1))

\* the (operator operand)* after a left operand of `level`
ParseTail(s, pos, level, left) ==
    ParseTailAt(s, pos, SkipWs(s, pos), level, left, OperatorAt(s, SkipWs(s, pos), level))

\* node.name, the name being the text in [from, to)
MemberOf(s, node, from, to) ==
    IF to = from \/ ~IsIdentStart(At(s, from)) THEN Fail
    ELSE ParsePostfix(s, to, [k |-> "member", obj |-> node, name |-> Substring(s, from, to)])

\* node(args), the arguments parsed as a
CallOf(s, node, a) ==
    IF ~a.ok THEN Fail
    ELSE ParsePostfix(s, a.pos, [k |-> "call", callee |-> node, args |-> a.args])

ParsePostfixAt(s, pos0, pos, node) ==
    IF pos < Len(s) /\ At(s, pos) = "."
      THEN MemberOf(s, node, SkipWs(s, pos + 1), RunEnd(s, SkipWs(s, pos + 1), "ident"))
    ELSE IF pos < Len(s) /\ At(s, pos) = "("
      THEN CallOf(s, node, ParseArgs(s, pos + 1, <<>>))
    ELSE Found(node, pos0)

\* the .name and (args) suffixes after a primary expression
ParsePostfix(s, pos, node) == ParsePostfixAt(s, pos, SkipWs(s, pos), node)

\* the "," or ")" at `next` after the argument parsed as r
ArgumentEnd(s, args, r, next) ==
    IF next >= Len(s) THEN Fail
    ELSE IF At(s, next) = ")"
      THEN [ok |-> TRUE, args |-> Append(args, r.node), pos |-> next + 1]
    ELSE IF At(s, next) = "," THEN ParseArgs(s, next + 1, Append(args, r.node))
    ELSE Fail

ArgumentOf(s, args, r) == IF ~r.ok THEN Fail ELSE ArgumentEnd(s, args, r, SkipWs(s, r.pos))

ParseArgsAt(s, pos, args) ==
    IF pos < Len(s) /\ At(s, pos) = ")" /\ args = <<>>
      THEN [ok |-> TRUE, args |-> args, pos |-> pos + 1]
      ELSE ArgumentOf(s, args, ParseLevel(s, pos, TopLevel))

\* the arguments of a call after its "(": [ok, args, pos after the ")"]
ParseArgs(s, pos, args) == ParseArgsAt(s, SkipWs(s, pos), args)

\* the numeral in [pos, to)
NumberOf(s, pos, to) ==
    IF to < Len(s) /\ IsIdentStart(At(s, to)) THEN Fail
    ELSE Found([k |-> "num", n |-> DigitsToNat(Substring(s, pos, to))], to)

\* the string literal whose body was read as b
StringLiteralOf(b) == IF ~b.ok THEN Fail ELSE Found([k |-> "str", s |-> b.val], b.pos)

\* the expression parsed as r and then `bracket` at `close`
ClosedOf(s, node, close, bracket) ==
    IF close >= Len(s) \/ At(s, close) # bracket THEN Fail ELSE Found(node, close + 1)

GroupOf(s, r) == IF ~r.ok THEN Fail ELSE ClosedOf(s, r.node, SkipWs(s, r.pos), ")")

\* the function literal that starts at head.start, with its body parsed as r; src is
\* its source text, which is what String() of the function gives
FunctionOf(s, head, r) ==
    IF ~r.ok THEN Fail
    ELSE ClosedOf(s, [k |-> "func", param |-> head.param, body |-> r.node,
                      src |-> Substring(s, head.start, SkipWs(s, r.pos) + 1)],
                  SkipWs(s, r.pos), "}")

\* function(param) { return body }: the body starts at `from` when the text from the
\* end of the name `function` reads (param) { return, and -1 otherwise
FunctionBodyStart(s, to) ==
    LET p1 == SkipWs(s, to)
        p2 == SkipWs(s, p1 + 1)
        p3 == RunEnd(s, p2, "ident")
        p4 == SkipWs(s, p3)
        p5 == SkipWs(s, p4 + 1)
        p6 == SkipWs(s, p5 + 1)
        p7 == RunEnd(s, p6, "ident")
    IN  IF /\ p1 < Len(s) /\ At(s, p1) = "("
           /\ p3 > p2 /\ IsIdentStart(At(s, p2))
           /\ Substring(s, p2, p3) \notin Keywords
           /\ p4 < Len(s) /\ At(s, p4) = ")"
           /\ p5 < Len(s) /\ At(s, p5) = "{"
           /\ Substring(s, p6, p7) = <<"r", "e", "t", "u", "r", "n">>
          THEN [param |-> Substring(s, p2, p3), from |-> p7, start |-> to - 8]
          ELSE [param |-> <<>>, from |-> -1, start |-> to - 8]

FunctionAt(s, head) ==
    IF head.from = -1 THEN Fail
    ELSE FunctionOf(s, head, ParseLevel(s, head.from, TopLevel))

\* the name in [pos, to): this, a function literal or an identifier
NameOf(s, name, to) ==
    IF name = <<"t", "h", "i", "s">> THEN Found([k |-> "this"], to)
    ELSE IF name = <<"f", "u", "n", "c", "t", "i", "o", "n">>
      THEN FunctionAt(s, FunctionBodyStart(s, to))
    ELSE IF name \in Keywords THEN Fail
    ELSE Found([k |-> "id", name |-> name], to)

\* a literal, name, this, parenthesised expression or function literal at pos
ParsePrimary(s, pos) ==
    IF pos >= Len(s) THEN Fail
    ELSE IF IsDigit(At(s, pos)) THEN NumberOf(s, pos, RunEnd(s, pos, "digit"))
    ELSE IF At(s, pos) \in {"\"", "'"}
      THEN StringLiteralOf(StringBody(s, pos + 1, At(s, pos), <<>>))
    ELSE IF At(s, pos) = "(" THEN GroupOf(s, ParseLevel(s, pos + 1, TopLevel))
    ELSE IF IsIdentStart(At(s, pos))
      THEN NameOf(s, Substring(s, pos, RunEnd(s, pos, "ident")), RunEnd(s, pos, "ident"))
    ELSE Fail

WholeOf(s, r) ==
    IF r.ok /\ SkipWs(s, r.pos) = Len(s) THEN [ok |-> TRUE, node |-> r.node] ELSE Fail

\* the whole text as one expression: [ok, node]
ParseJs(s) == WholeOf(s, ParseLevel(s, 0, TopLevel))

\* new Function('return ' + jsExpr) does not throw
ValidJs(s) == ParseJs(s).ok

-----------------------------------------------------------------------------
(* Evaluation of an expression in the render function.  env maps the names  *)
(* in scope (ctx and the var-declared loop names, which are function-scoped)*)
(* to their values; any other name is unresolvable (a ReferenceError).  The *)
(* Renderer calls the function as compiledTemplate(context) and the function*)
(* is strict, so `this` is undefined in it.                                 *)

Ascii == <<" ", "!", "\"", "#", "$", "%", "&", "'", "(", ")", "*", "+", ",", "-", ".", "/",
           "0", "1", "2", "3", "4", "5", "6", "7", "8", "9", ":", ";", "<", "=", ">", "?",
           "@", "A", "B", "C", "D", "E", "F", "G", "H", "I", "J", "K", "L", "M", "N", "O",
           "P", "Q", "R", "S", "T", "U", "V", "W", "X", "Y", "Z", "[", "\\", "]", "^", "_",
           "bq", "a", "b", "c", "d", "e", "f", "g", "h", "i", "j", "k", "l", "m", "n", "o",
           "p", "q", "r", "s", "t", "u", "v", "w", "x", "y", "z", "{", "|", "}", "~">>

\* the code unit of a printable ASCII character ("bq" holds the place of the
\* backquote, which no string of the model contains); a line break otherwise
CharCode(c) == IF \E i \in 1..Len(Ascii) : Ascii[i] = c
                 THEN 31 + (CHOOSE i \in 1..Len(Ascii) : Ascii[i] = c)
                 ELSE 10

\* s < t for two strings
RECURSIVE StringLess(_, _)
StringLess(s, t) ==
    IF t = <<>> THEN FALSE
    ELSE IF s = <<>> THEN TRUE
    ELSE IF Head(s) = Head(t) THEN StringLess(Tail(s), Tail(t))
    ELSE CharCode(Head(s)) < CharCode(Head(t))

\* Number(s) for a string: integers only, anything else is NaN
StringToNumber(s0) ==
    LET s == Trim(s0)
    IN  IF s = <<>> THEN Num(0)
        ELSE IF IsDigitString(s) THEN Num(DigitsToNat(s))
        ELSE IF Head(s) = "-" /\ IsDigitString(Tail(s)) THEN Num(0 - DigitsToNat(Tail(s)))
        ELSE NaN

\* Number(v)
ToNumber(v) ==
    CASE v.t = "number" -> v
      [] v.t = "null" -> Num(0)
      [] v.t = "boolean" -> Num(IF v.b THEN 1 ELSE 0)
      [] v.t = "string" -> StringToNumber(v.s)
      [] v.t = "array" -> StringToNumber(StringOf(v))
      [] OTHER -> NaN

\* l === r (objects and arrays of a context are equal when they are the same data)
StrictEquals(l, r) == l.t # "NaN" /\ l = r

\* a < b, a <= b, a + b of numbers (false and NaN when one is NaN)
NumberLess(a, b) == a.t = "number" /\ b.t = "number" /\ a.n < b.n
NumberLessOrEqual(a, b) == a.t = "number" /\ b.t = "number" /\ a.n <= b.n
NumberPlus(a, b) == IF a.t = "number" /\ b.t = "number" THEN Num(a.n + b.n) ELSE NaN

\* a - b, a * b, a / b of numbers (a quotient that is not an integer is outside the model)
NumberArithmetic(op, a, b) ==
    IF a.t # "number" \/ b.t # "number" THEN NaN
    ELSE CASE op = <<"-">> -> Num(a.n - b.n)
           [] op = <<"*">> -> Num(a.n * b.n)
           [] op = <<"/">> -> IF b.n # 0 /\ a.n % b.n = 0 THEN Num(a.n \div b.n) ELSE NaN

\* l < r
LessThan(l, r) ==
    IF l.t \in {"string", "array", "object"} /\ r.t \in {"string", "array", "object"}
      THEN StringLess(StringOf(l), StringOf(r))
      ELSE NumberLess(ToNumber(l), ToNumber(r))

\* l <= r
LessOrEqual(l, r) ==
    IF l.t \in {"string", "array", "object"} /\ r.t \in {"string", "array", "object"}
      THEN ~StringLess(StringOf(r), StringOf(l))
      ELSE NumberLessOrEqual(ToNumber(l), ToNumber(r))

\* l + r
Plus(l, r) ==
    IF l.t \in {"string", "array", "object", "function"}
       \/ r.t \in {"string", "array", "object", "function"}
      THEN Str(StringOf(l) \o StringOf(r))
      ELSE NumberPlus(ToNumber(l), ToNumber(r))

\* l - r, l * r, l / r
Arithmetic(op, l, r) == NumberArithmetic(op, ToNumber(l), ToNumber(r))

Value(v) == [err |-> "none", val |-> v]

Throw(e) == [err |-> e]

RECURSIVE Eval(_, _)
RECURSIVE EvalArgs(_, _)

NameEscape == <<"_", "_", "e", "s", "c", "a", "p", "e">>
NameGet == <<"_", "_", "g", "e", "t">>
NameString == <<"S", "t", "r", "i", "n", "g">>
NameCtx == <<"c", "t", "x">>

Arg(vals, i) == IF i <= Len(vals) THEN vals[i] ELSE Undefined

\* the argument values a and then those of the rest
ArgsRest(a, rest) ==
    IF rest.err # "none" THEN Throw(rest.err)
    ELSE [err |-> "none", vals |-> <<a.val>> \o rest.vals]

ArgsFirst(args, env, a) ==
    IF a.err # "none" THEN Throw(a.err) ELSE ArgsRest(a, EvalArgs(Tail(args), env))

\* the values of the argument expressions, left to right
EvalArgs(args, env) ==
    IF args = <<>> THEN [err |-> "none", vals |-> <<>>]
    ELSE ArgsFirst(args, env, Eval(Head(args), env))

\* o.name
EvalMember(node, o) ==
    IF o.err # "none" THEN Throw(o.err)
    ELSE IF IsNullish(o.val) THEN Throw("TypeError")
    ELSE Value(GetProp(o.val, node.name))

Negative(n) == IF n.t = "number" THEN Num(0 - n.n) ELSE NaN

\* !a and -a
EvalUnary(node, a) ==
    IF a.err # "none" THEN Throw(a.err)
    ELSE IF node.op = "!" THEN Value(Bool(~Truthy(a.val)))
    ELSE Value(Negative(ToNumber(a.val)))

\* l op r with both operands evaluated
EvalRight(node, l, r) ==
    IF r.err # "none" THEN Throw(r.err)
    ELSE CASE node.op \in {<<"|", "|">>, <<"&", "&">>} -> r
           [] node.op = <<"=", "=", "=">> -> Value(Bool(StrictEquals(l.val, r.val)))
           [] node.op = <<"!", "=", "=">> -> Value(Bool(~StrictEquals(l.val, r.val)))
           [] node.op = <<"<">> -> Value(Bool(LessThan(l.val, r.val)))
           [] node.op = <<">">> -> Value(Bool(LessThan(r.val, l.val)))
           [] node.op = <<"<", "=">> -> Value(Bool(LessOrEqual(l.val, r.val)))
           [] node.op = <<">", "=">> -> Value(Bool(LessOrEqual(r.val, l.val)))
           [] node.op = <<"+">> -> Value(Plus(l.val, r.val))
           [] OTHER -> Value(Arithmetic(node.op, l.val, r.val))

\* l op r with the left operand evaluated: || and && may stop at it
EvalBinary(node, env, l) ==
    IF l.err # "none" THEN Throw(l.err)
    ELSE IF node.op = <<"|", "|">> /\ Truthy(l.val) THEN l
    ELSE IF node.op = <<"&", "&">> /\ ~Truthy(l.val) THEN l
    ELSE EvalRight(node, l, Eval(node.r, env))

\* __escape(v), String(v) and __get(obj, path) with the arguments evaluated
EvalHelper(node, a) ==
    IF a.err # "none" THEN Throw(a.err)
    ELSE IF node.callee.name = NameEscape THEN Value(Str(EscapeHtml(Arg(a.vals, 1))))
    ELSE IF node.callee.name = NameString THEN Value(Str(StringOf(Arg(a.vals, 1))))
    ELSE Value(DeepGet(Arg(a.vals, 1),
                       IF Arg(a.vals, 2).t = "string" THEN Arg(a.vals, 2).s ELSE <<>>))

\* the methods of values are outside the model: a call of anything but a helper
\* throws when its callee does, and otherwise as a call of a value that is no function
EvalOther(c) == IF c.err # "none" THEN Throw(c.err) ELSE Throw("TypeError")

\* the value of an expression, or the error its evaluation throws
Eval(node, env) ==
    CASE node.k = "num" -> Value(Num(node.n))
      [] node.k = "str" -> Value(Str(node.s))
      [] node.k = "this" -> Value(Undefined)
      [] node.k = "id" ->
            IF node.name \in DOMAIN env THEN Value(env[node.name])
            ELSE Throw("ReferenceError")
      [] node.k = "func" ->
            Value([t |-> "function", param |-> node.param, body |-> node.body,
                   src |-> node.src])
      [] node.k = "member" -> EvalMember(node, Eval(node.obj, env))
      [] node.k = "un" -> EvalUnary(node, Eval(node.arg, env))
      [] node.k = "bin" -> EvalBinary(node, env, Eval(node.l, env))
      [] node.k = "call" ->
            IF node.callee.k = "id"
               /\ node.callee.name \in {NameEscape, NameGet, NameString}
              THEN EvalHelper(node, EvalArgs(node.args, env))
              ELSE EvalOther(Eval(node.callee, env))

\* the value of expression text in env (the text parsed when the function was made)
EvalJs(text, env) == Eval(ParseJs(text).node, env)

-----------------------------------------------------------------------------
(* Compiler, src/src/compiler.js.  The render function is kept as its       *)
(* statements: [op |-> "push", expr] is output.push(expr); [op |-> "if",    *)
(* cond, body] is if (cond) { body }; [op |-> "each", ...] is the var, if   *)
(* and for lines of _generateEachCode around the body.  Every expression is *)
(* the source text the Compiler emits.  A loopContext is the chain of       *)
(* {itemName, indexName} from the innermost loop outwards (its parent is    *)
(* its Tail); the empty chain is null.                                      *)

This == <<"t", "h", "i", "s">>
ThisDot == <<"t", "h", "i", "s", ".">>
AtIndex == <<"@", "i", "n", "d", "e", "x">>
Arrow == <<"=", ">">>

\* a JSON.stringify that escapes the quotes of a string and leaves its backslashes
RECURSIVE JsonEscapeQuotesOnly(_)
JsonEscapeQuotesOnly(s) ==
    IF s = <<>> THEN <<>>
    ELSE (IF Head(s) = "\"" THEN <<"\\", "\"">> ELSE <<Head(s)>>)
         \o JsonEscapeQuotesOnly(Tail(s))

\* JSON.stringify(s) of a string
RECURSIVE JsonEscape(_)
JsonEscape(s) ==
    IF s = <<>> THEN <<>>
    ELSE (CASE Head(s) = "\"" -> <<"\\", "\"">>
            [] Head(s) = "\\" -> <<"\\", "\\">>
            [] Head(s) = "\n" -> <<"\\", "n">>
            [] Head(s) = "\t" -> <<"\\", "t">>
            [] OTHER -> <<Head(s)>>) \o JsonEscape(Tail(s))

JsonStringify(s) == <<"\"">> \o JsonEscape(s) \o <<"\"">>

\* s.replace(/pat/g, rep) for a literal pattern
RECURSIVE ReplaceSub(_, _, _)
ReplaceSub(s, pat, rep) ==
    LET i == IndexOf(s, pat, 0)
    IN  IF i = -1 THEN s
        ELSE Substring(s, 0, i) \o rep \o ReplaceSub(Slice(s, i + Len(pat)), pat, rep)

\* /^[a-zA-Z_$][a-zA-Z0-9_$]*$/
IsIdentifier(s) ==
    Len(s) > 0 /\ IsIdentStart(s[1]) /\ \A i \in 1..Len(s) : IsIdentChar(s[i])

\* /^[a-zA-Z_$][a-zA-Z0-9_$]*(\.[a-zA-Z_$][a-zA-Z0-9_$]*)*$/
IsPath(s) ==
    LET parts == SplitOn(s, ".")
    IN  \A i \in 1..Len(parts) : IsIdentifier(parts[i])

\* /\.name\b/.test(expr)
HasMethodSuffix(expr, name) ==
    \E i \in 0..(Len(expr) - Len(name) - 1) :
        /\ At(expr, i) = "."
        /\ Substring(expr, i + 1, i + 1 + Len(name)) = name
        /\ (i + 1 + Len(name) = Len(expr) \/ ~IsWordChar(At(expr, i + 1 + Len(name))))

MethodNames == { <<"l", "e", "n", "g", "t", "h">>, <<"s", "p", "l", "i", "t">>,
                 <<"j", "o", "i", "n">>,
                 <<"t", "o", "U", "p", "p", "e", "r", "C", "a", "s", "e">>,
                 <<"t", "o", "L", "o", "w", "e", "r", "C", "a", "s", "e">>,
                 <<"t", "r", "i", "m">>, <<"s", "l", "i", "c", "e">>,
                 <<"s", "u", "b", "s", "t", "r", "i", "n", "g">>,
                 <<"c", "h", "a", "r", "A", "t">>, <<"f", "i", "l", "t", "e", "r">> }

\* _isComplexExpression(expr)
IsComplexExpression(expr) ==
    \/ \E i \in 1..Len(expr) : expr[i] \in {"(", ")", "+", "-", "*", "/"}
    \/ \E name \in MethodNames : HasMethodSuffix(expr, name)
    \/ Includes(expr, Arrow)
    \/ Includes(expr, AtIndex)

\* jsExpr.replace(/([a-zA-Z_$][a-zA-Z0-9_$]*)\s*=>\s*(.+)/g, 'function($1) { return $2 }')
\* for an expression of one line: the leftmost identifier that an arrow follows is $1
\* and the rest of the line after the arrow is $2
RewriteArrow(jsExpr) ==
    LET ArrowAt(p) == SkipWs(jsExpr, RunEnd(jsExpr, p, "ident"))
        starts == {p \in 0..(Len(jsExpr) - 1) :
                     /\ IsIdentStart(At(jsExpr, p))
                     /\ StartsWith(Slice(jsExpr, ArrowAt(p)), Arrow)
                     /\ ArrowAt(p) + 2 < Len(jsExpr)}
        Body(afterWs) == IF afterWs < Len(jsExpr) THEN Slice(jsExpr, afterWs)
                         ELSE Slice(jsExpr, Len(jsExpr) - 1)
        Rewritten(p) ==
            Substring(jsExpr, 0, p)
            \o <<"f", "u", "n", "c", "t", "i", "o", "n", "(">>
            \o Substring(jsExpr, p, RunEnd(jsExpr, p, "ident"))
            \o <<")", " ", "{", " ", "r", "e", "t", "u", "r", "n", " ">>
            \o Body(SkipWs(jsExpr, ArrowAt(p) + 2))
            \o <<" ", "}">>
    IN  IF starts = {} THEN jsExpr ELSE Rewritten(SetMin(starts))

Code(c) == [err |-> "none", code |-> c]

\* jsExpr.replace(/@index/g, loopContext.indexName), or '0' outside a loop
ReplaceIndex(e, loopContext) ==
    IF Includes(e, AtIndex)
      THEN IF loopContext # <<>> /\ Head(loopContext).indexName # <<>>
             THEN ReplaceSub(e, AtIndex, Head(loopContext).indexName)
             ELSE ReplaceSub(e, AtIndex, <<"0">>)
      ELSE e

\* in a loop, `this` alone and a leading `this.` become the item variable
ReplaceThis(e, loopContext) ==
    IF loopContext # <<>>
      THEN IF e = This THEN Head(loopContext).itemName
           ELSE IF StartsWith(e, ThisDot)
             THEN Head(loopContext).itemName \o <<".">> \o Slice(e, 5)
           ELSE e
      ELSE e

ReplaceArrows(e) == IF Includes(e, Arrow) THEN RewriteArrow(e) ELSE e

\* new Function('return ' + jsExpr) accepts the expression, or the Error is thrown
Validated(jsExpr) ==
    IF ValidJs(jsExpr) THEN Code(jsExpr) ELSE Throw("Invalid complex expression")

\* _compileComplexExpression(expression, loopContext)
CompileComplexExpression(expression, loopContext) ==
    Validated(ReplaceArrows(ReplaceThis(ReplaceIndex(expression, loopContext), loopContext)))

\* `${loopContext.itemName}.${prop}` in a loop and `ctx.${prop}` outside, for this.prop
ThisProperty(expression, loopContext) ==
    (IF loopContext # <<>> THEN Head(loopContext).itemName ELSE NameCtx)
    \o <<".">> \o Slice(expression, 5)

\* _generateAccessCode(expression, loopContext)
GenerateAccessCode(expression, loopContext) ==
    IF expression = This
      THEN Code(IF loopContext # <<>> THEN Head(loopContext).itemName ELSE NameCtx)
    ELSE IF StartsWith(expression, ThisDot)
      THEN CompileComplexExpression(ThisProperty(expression, loopContext), loopContext)
    ELSE IF IsComplexExpression(expression)
      THEN CompileComplexExpression(expression, loopContext)
    ELSE IF IsPath(expression)
      THEN Code(NameGet \o <<"(">> \o NameCtx \o <<",", " ">> \o JsonStringify(expression)
                \o <<")">>)
    ELSE Throw("Invalid variable expression")

\* output.push(String(accessCode)) when raw, output.push(__escape(accessCode)) otherwise
PushCode(isRaw, accessCode) ==
    IF accessCode.err # "none" THEN Throw(accessCode.err)
    ELSE [err |-> "none",
          lines |-> <<[op |-> "push",
                       expr |-> (IF isRaw THEN NameString ELSE NameEscape)
                                \o <<"(">> \o accessCode.code \o <<")">>]>>]

\* _generateVariableCode(expression, isRaw, loopContext)
GenerateVariableCode(expression, isRaw, loopContext) ==
    IF Trim(expression) = <<>> THEN Throw("Empty variable expression")
    ELSE PushCode(isRaw, GenerateAccessCode(expression, loopContext))

\* !isNaN(operand) && operand.trim() !== '' (the numerals of the model are integers)
IsNumeric(operand) == Trim(operand) # <<>> /\ StringToNumber(operand).t = "number"

\* _generateComparisonOperand(operand, loopContext), after operand = operand.trim()
GenerateTrimmedOperand(operand, loopContext) ==
    IF (StartsWith(operand, <<"'">>) /\ EndsWith(operand, <<"'">>))
       \/ (StartsWith(operand, <<"\"">>) /\ EndsWith(operand, <<"\"">>))
      THEN Code(operand)
    ELSE IF IsNumeric(operand) THEN Code(operand)
    ELSE IF IsComplexExpression(operand)
      THEN CompileComplexExpression(operand, loopContext)
    ELSE GenerateAccessCode(operand, loopContext)

\* _generateComparisonOperand(operand, loopContext)
GenerateComparisonOperand(operand, loopContext) ==
    GenerateTrimmedOperand(Trim(operand), loopContext)

\* condition.match(/^\((\w+)\s+([^)]+)\s+([^)]+)\)$/): [ok, operator, left, right].
\* Between the operator and the closing parenthesis no ")" may occur; the first \s+
\* takes as much white space as it can, then the left operand takes as much as it can
\* while white space and a non-empty right operand remain.
ComparisonMatch(condition) ==
    LET n == Len(condition)
        opEnd == RunEnd(condition, 1, "word")
        shape == /\ n >= 2 /\ At(condition, 0) = "(" /\ At(condition, n - 1) = ")"
                 /\ opEnd > 1
                 /\ \A i \in opEnd..(n - 2) : At(condition, i) # ")"
        \* <<a, b, c>>: \s+ is [opEnd, a), left [a, b), \s+ [b, c), right [c, n - 1)
        splits == {x \in (opEnd..(n - 1)) \X (opEnd..(n - 1)) \X (opEnd..(n - 1)) :
                     /\ opEnd < x[1] /\ x[1] < x[2] /\ x[2] < x[3] /\ x[3] < n - 1
                     /\ \A i \in opEnd..(x[1] - 1) : IsSpace(At(condition, i))
                     /\ \A i \in x[2]..(x[3] - 1) : IsSpace(At(condition, i))}
        best == CHOOSE x \in splits : \A y \in splits :
                    \/ x[1] > y[1]
                    \/ (x[1] = y[1] /\ x[2] > y[2])
                    \/ (x[1] = y[1] /\ x[2] = y[2] /\ x[3] >= y[3])
    IN  IF ~shape \/ splits = {} THEN [ok |-> FALSE]
        ELSE [ok |-> TRUE,
              operator |-> Substring(condition, 1, opEnd),
              left |-> Substring(condition, best[1], best[2]),
              right |-> Substring(condition, best[3], n - 1)]

\* the switch (operator) of _generateConditionCode
ComparisonOperator(operator) ==
    CASE operator = <<"e", "q">> -> <<"=", "=", "=">>
      [] operator = <<"n", "e", "q">> -> <<"!", "=", "=">>
      [] operator = <<"g", "t">> -> <<">">>
      [] operator = <<"g", "t", "e">> -> <<">", "=">>
      [] operator = <<"l", "t">> -> <<"<">>
      [] operator = <<"l", "t", "e">> -> <<"<", "=">>
      [] operator = <<"a", "n", "d">> -> <<"&", "&">>
      [] operator = <<"o", "r">> -> <<"|", "|">>
      [] OTHER -> <<>>

\* `${leftCode} ${op} ${rightCode}`, or the Error of the default case
ComparisonCode(leftCode, rightCode, op) ==
    IF leftCode.err # "none" THEN Throw(leftCode.err)
    ELSE IF rightCode.err # "none" THEN Throw(rightCode.err)
    ELSE IF op = <<>> THEN Throw("Unsupported comparison operator")
    ELSE Code(leftCode.code \o <<" ">> \o op \o <<" ">> \o rightCode.code)

\* `${prefix}${valueCode}${suffix}`
Wrapped(prefix, valueCode, suffix) ==
    IF valueCode.err # "none" THEN Throw(valueCode.err)
    ELSE Code(prefix \o valueCode.code \o suffix)

\* _generateConditionCode(condition, loopContext), after condition.trim() and the match
GenerateMatchedCondition(condition, comparisonMatch, loopContext) ==
    IF comparisonMatch.ok
      THEN ComparisonCode(
             GenerateComparisonOperand(Trim(comparisonMatch.left), loopContext),
             GenerateComparisonOperand(Trim(comparisonMatch.right), loopContext),
             ComparisonOperator(comparisonMatch.operator))
    ELSE IF IsComplexExpression(condition)
      THEN Wrapped(<<"!", "!", "(">>, GenerateAccessCode(condition, loopContext), <<")">>)
    ELSE IF StartsWith(condition, ThisDot)
      THEN IF loopContext # <<>>
             THEN Code(<<"!", "!">> \o Head(loopContext).itemName \o <<".">>
                       \o Slice(condition, 5))
             ELSE Code(<<"!", "!">> \o NameGet \o <<"(">> \o NameCtx \o <<",", " ">>
                       \o JsonStringify(Slice(condition, 5)) \o <<")">>)
    ELSE IF IsPath(condition)
      THEN Wrapped(<<"!", "!">>, GenerateAccessCode(condition, loopContext), <<>>)
    ELSE Throw("Invalid condition expression")

\* _generateConditionCode(condition, loopContext)
GenerateConditionCode(condition, loopContext) ==
    GenerateMatchedCondition(Trim(condition), ComparisonMatch(Trim(condition)), loopContext)

ItemPrefix == <<"i", "t", "e", "m", "_">>
IndexPrefix == <<"i", "n", "d", "e", "x", "_">>
ArrayPrefix == <<"i", "t", "e", "m", "s", "_">>

Lines(l, next) == [err |-> "none", lines |-> l, next |-> next]

RECURSIVE GenerateNodeCode(_, _, _, _)
RECURSIVE GenerateChildren(_, _, _, _)

\* the lines of the first child and then those of the rest
ChildrenRest(first, rest) ==
    IF rest.err # "none" THEN Throw(rest.err)
    ELSE Lines(first.lines \o rest.lines, rest.next)

\* a forEach that would hand the scope of an Each on to the nodes after it
ChildrenFirstLeaking(children, loopContext, ids, first) ==
    IF first.err # "none" THEN Throw(first.err)
    ELSE ChildrenRest(first,
             GenerateChildren(Tail(children),
                 IF Head(children).type = "Each"
                   THEN <<[itemName |-> first.lines[1].itemName,
                           indexName |-> first.lines[1].indexName]>> \o loopContext
                   ELSE loopContext,
                 ids, first.next))

ChildrenFirst(children, loopContext, ids, first) ==
    IF first.err # "none" THEN Throw(first.err)
    ELSE ChildrenRest(first, GenerateChildren(Tail(children), loopContext, ids, first.next))

\* the forEach over the children of a node: the lines of all of them.  ids are the
\* outcomes of the Math.random calls of the pass and next counts the calls made.
GenerateChildren(children, loopContext, ids, next) ==
    IF children = <<>> THEN Lines(<<>>, next)
    ELSE ChildrenFirst(children, loopContext, ids,
                       GenerateNodeCode(Head(children), loopContext, ids, next))

\* the var, if and for lines around the body; `node` in the statement is the ordinal
\* of the node's Math.random call, which names the loop in the trace
EachCode(itemsCode, loopId, ordinal, body) ==
    IF body.err # "none" THEN Throw(body.err)
    ELSE Lines(<<[op |-> "each", node |-> ordinal,
                  arrayName |-> ArrayPrefix \o loopId,
                  indexName |-> IndexPrefix \o loopId,
                  itemName |-> ItemPrefix \o loopId,
                  items |-> itemsCode.code, body |-> body.lines]>>, body.next)

\* _generateEachCode from the loopId on: the loopContext of the body and its lines
EachBody(node, parentLoopContext, ids, next, itemsCode) ==
    IF itemsCode.err # "none" THEN Throw(itemsCode.err)
    ELSE EachCode(itemsCode, ids[next + 1], next + 1,
             GenerateChildren(node.children,
                 <<[itemName |-> ItemPrefix \o ids[next + 1],
                    indexName |-> IndexPrefix \o ids[next + 1]]>> \o parentLoopContext,
                 ids, next + 1))

\* _generateEachCode(node, parentLoopContext)
GenerateEachCode(node, parentLoopContext, ids, next) ==
    EachBody(node, parentLoopContext, ids, next,
             GenerateAccessCode(node.items, parentLoopContext))

\* if (conditionCode) { body }
IfCode(conditionCode, body) ==
    IF body.err # "none" THEN Throw(body.err)
    ELSE Lines(<<[op |-> "if", cond |-> conditionCode.code, body |-> body.lines]>>,
               body.next)

IfBody(node, loopContext, ids, next, conditionCode) ==
    IF conditionCode.err # "none" THEN Throw(conditionCode.err)
    ELSE IfCode(conditionCode, GenerateChildren(node.children, loopContext, ids, next))

\* _generateIfCode(node, loopContext)
GenerateIfCode(node, loopContext, ids, next) ==
    IfBody(node, loopContext, ids, next, GenerateConditionCode(node.condition, loopContext))

VariableLines(r, next) == IF r.err # "none" THEN Throw(r.err) ELSE Lines(r.lines, next)

\* _generateNodeCode(node, loopContext)
GenerateNodeCode(node, loopContext, ids, next) ==
    CASE node.type = "Text" ->
            Lines(<<[op |-> "push", expr |-> JsonStringify(node.value)]>>, next)
      [] node.type \in {"Variable", "RawVariable"} ->
            VariableLines(GenerateVariableCode(node.expression, node.type = "RawVariable",
                                               loopContext), next)
      [] node.type = "If" -> GenerateIfCode(node, loopContext, ids, next)
      [] node.type = "Each" -> GenerateEachCode(node, loopContext, ids, next)
      [] OTHER -> Throw("Unknown node type")

\* _generateJSCode(ast): the statements between the prologue and the return
GenerateJSCode(root, ids) == GenerateChildren(root.children, <<>>, ids, 0)

\* new Function('ctx', jsCode) parses the code: every expression in it is well formed
RECURSIVE CodeParses(_)
CodeParses(lines) ==
    \A i \in 1..Len(lines) :
        CASE lines[i].op = "push" -> ValidJs(lines[i].expr)
          [] lines[i].op = "if" -> ValidJs(lines[i].cond) /\ CodeParses(lines[i].body)
          [] lines[i].op = "each" -> ValidJs(lines[i].items) /\ CodeParses(lines[i].body)

\* new Function('ctx', jsCode) over the code generated, or the Error rethrown
MakeFunction(jsCode) ==
    IF jsCode.err # "none" THEN Throw(jsCode.err)
    ELSE IF ~CodeParses(jsCode.lines) THEN Throw("Compilation failed")
    ELSE [err |-> "none", code |-> jsCode.lines]

\* compile(ast), given the outcomes of its Math.random calls
Compile(root, ids) ==
    IF root.type # "Root" THEN Throw("Invalid AST: expected Root node")
    ELSE MakeFunction(GenerateJSCode(root, ids))

\* the number of Each nodes among the nodes and below them
RECURSIVE CountEach(_)
CountEach(nodes) ==
    IF nodes = <<>> THEN 0
    ELSE (IF Head(nodes).type = "Each" THEN 1 + CountEach(Head(nodes).children)
          ELSE IF Head(nodes).type = "If" THEN CountEach(Head(nodes).children)
          ELSE 0) + CountEach(Tail(nodes))

-----------------------------------------------------------------------------
(* The render function at work.  st = [err, env, out, trace]: env is the    *)
(* function's variables, out its output array, and trace records each       *)
(* statement executed with the values it saw.                               *)

Bind(env, name, v) == (name :> v) @@ env

RECURSIVE ExecLines(_, _)
RECURSIVE ExecFor(_, _)
RECURSIVE ExecLine(_, _)

\* index++ after the body ran, and the loop again from its condition
ForStep(line, after) ==
    IF after.err # "none" THEN after
    ELSE ExecFor(line,
           [after EXCEPT !.env = Bind(@, line.indexName,
                                      Plus(ToNumber(after.env[line.indexName]), Num(1)))])

\* var item = items[index]; and the body
ForBody(line, st, index, item) ==
    ForStep(line,
        ExecLines(line.body,
            [st EXCEPT !.env = Bind(@, line.itemName, item),
                       !.trace = Append(@, [ev |-> "iter", node |-> line.node,
                                            index |-> index, item |-> item])]))

\* the loop after its condition index < items.length was evaluated as cond
ForTest(line, st, cond) ==
    IF cond.err # "none" THEN [st EXCEPT !.err = cond.err]
    ELSE IF ~Truthy(cond.val)
      THEN [st EXCEPT !.trace = Append(@, [ev |-> "end", node |-> line.node])]
    ELSE ForBody(line, st, st.env[line.indexName],
                 GetProp(st.env[line.arrayName], StringOf(st.env[line.indexName])))

\* the for loop of an each statement from its condition on
ExecFor(line, st) ==
    ForTest(line, st,
            EvalJs(line.indexName \o <<" ", "<", " ">> \o line.arrayName
                   \o <<".", "l", "e", "n", "g", "t", "h">>, st.env))

\* output.push(expr) with the expression evaluated as r and its argument as arg
Pushed(line, st, r, arg) ==
    IF r.err # "none" THEN [st EXCEPT !.err = r.err]
    ELSE [st EXCEPT !.out = Append(@, r.val),
                    !.trace = Append(@, [ev |-> "push", expr |-> line.expr,
                                         arg |-> arg.val, piece |-> r.val.s])]

\* the first argument of a helper call, for the trace
FirstArgument(node, env) ==
    IF node.k = "call" THEN Eval(node.args[1], env) ELSE Value(Undefined)

ExecPush(line, st, node) == Pushed(line, st, Eval(node, st.env), FirstArgument(node, st.env))

\* if (cond) { body } with the condition evaluated as c
ExecIf(line, st, c) ==
    IF c.err # "none" THEN [st EXCEPT !.err = c.err]
    ELSE IF Truthy(c.val)
      THEN ExecLines(line.body,
             [st EXCEPT !.trace = Append(@, [ev |-> "if", cond |-> line.cond,
                                             taken |-> TRUE])])
    ELSE [st EXCEPT !.trace = Append(@, [ev |-> "if", cond |-> line.cond,
                                         taken |-> FALSE])]

\* var items = ...; if (Array.isArray(items)) { for ... } with the items evaluated
ExecEach(line, st, items) ==
    IF items.err # "none" THEN [st EXCEPT !.err = items.err]
    ELSE IF IsArray(items.val)
      THEN ExecFor(line,
             [st EXCEPT !.env = Bind(Bind(@, line.arrayName, items.val),
                                     line.indexName, Num(0)),
                        !.trace = Append(@, [ev |-> "each", node |-> line.node,
                                             items |-> items.val])])
    ELSE [st EXCEPT !.env = Bind(@, line.arrayName, items.val),
                    !.trace = Append(@, [ev |-> "each", node |-> line.node,
                                         items |-> items.val])
                              \o <<[ev |-> "end", node |-> line.node]>>]

\* one statement
ExecLine(line, st) ==
    CASE line.op = "push" -> ExecPush(line, st, ParseJs(line.expr).node)
      [] line.op = "if" -> ExecIf(line, st, EvalJs(line.cond, st.env))
      [] line.op = "each" -> ExecEach(line, st, EvalJs(line.items, st.env))

\* the statements in order, until one throws
ExecLines(lines, st) ==
    IF lines = <<>> \/ st.err # "none" THEN st
    ELSE ExecLines(Tail(lines), ExecLine(Head(lines), st))

\* output.join("")
RECURSIVE Join(_)
Join(out) == IF out = <<>> THEN <<>> ELSE StringOf(Head(out)) \o Join(Tail(out))

\* the render function called with a context: the state it ends in
RenderFunction(lines, context) ==
    ExecLines(lines, [err |-> "none", env |-> (NameCtx :> context), out |-> <<>>,
                      trace |-> <<>>])

-----------------------------------------------------------------------------
(* Inputs *)

Mark(e) == <<"{", "{">> \o e \o <<"}", "}">>
RawMark(e) == <<"{", "{", "{">> \o e \o <<"}", "}", "}">>
IfOpen(c) == Mark(<<"#", "i", "f", " ">> \o c)
IfClose == Mark(<<"/", "i", "f">>)
EachOpen(e) == Mark(<<"#", "e", "a", "c", "h", " ">> \o e)
EachClose == Mark(<<"/", "e", "a", "c", "h">>)

Items == <<"i", "t", "e", "m", "s">>
Rows == <<"r", "o", "w", "s">>
Length == <<"l", "e", "n", "g", "t", "h">>

\* the strings of at most n characters of the alphabet
RECURSIVE StringsUpTo(_, _)
StringsUpTo(alphabet, n) ==
    IF n = 0 THEN {<<>>}
    ELSE LET shorter == StringsUpTo(alphabet, n - 1)
         IN  shorter \cup {Append(s, c) : s \in shorter, c \in alphabet}

KeyA == <<"a">>
KeyB == <<"b">>
KeyC == <<"c">>

\* an object of the given properties; a property whose value is Absent is left out
Absent == [t |-> "absent"]

RECURSIVE MakeObject(_)
MakeObject(props) ==
    IF props = <<>> THEN <<>>
    ELSE IF Head(props)[2] = Absent THEN MakeObject(Tail(props))
    ELSE (Head(props)[1] :> Head(props)[2]) @@ MakeObject(Tail(props))

\* the values of the context's property a
ValuesOfA ==
    { Absent, Null, Num(1), Num(2),
      Str(<<"<", "b", ">", "&">>), Str(<<"\"", "'", "a">>),
      Obj(<<>>),
      Obj(MakeObject(<< <<KeyB, Obj(MakeObject(<< <<KeyC, Str(<<"v">>)>> >>))>> >>)),
      Obj(MakeObject(<< <<KeyB, Num(0)>> >>)) }

\* the values of the context's property items
ValuesOfItems ==
    { Absent, Null, Num(5), Str(<<"a", "b">>),
      Obj(MakeObject(<< <<KeyA, Num(1)>> >>)),
      Arr(<<>>),
      Arr(<<Str(<<"a">>), Str(<<"b">>), Str(<<"c">>)>>),
      Arr(<<Arr(<<Num(1)>>), Arr(<<Num(2), Num(3)>>)>>),
      Arr(<<Arr(<<Str(<<"<">>), Num(4)>>), Num(7), Arr(<<Num(0)>>)>>),
      Arr(<<Null, Arr(<<Num(1)>>)>>),
      Arr(<<Obj(MakeObject(<< <<KeyA, Obj(MakeObject(<< <<KeyB, Str(<<"&">>)>> >>))>> >>)),
            Obj(MakeObject(<< <<KeyA, Num(1)>> >>)), Null>>) }

\* the context objects: {a, b: 1, items} with a and items of every kind, or missing
Contexts ==
    { Obj(MakeObject(<< <<KeyA, a>>, <<KeyB, Num(1)>>, <<Items, i>> >>)) :
        a \in ValuesOfA, i \in ValuesOfItems }

\* a lambda shorthand param => body between the text before and after it
Lambda(before, param, body, after) ==
    [before |-> before, param |-> param, body |-> body, after |-> after]

\* x => x.a alone and as the argument of a method call
Lambdas ==
    { Lambda(<<>>, <<"x">>, <<"x", ".", "a">>, <<>>),
      Lambda(Items \o <<".", "f", "i", "l", "t", "e", "r", "(">>, <<"x">>,
             <<"x", ".", "a">>, <<")">>) }

LambdaText(l) == l.before \o l.param \o <<" ">> \o Arrow \o <<" ">> \o l.body \o l.after

\* expressions of {{...}} and {{{...}}}
Expressions ==
    { KeyA, This, AtIndex,
      <<"a", ".", "b">>, <<"a", ".", "b", ".", "c">>,
      ThisDot \o KeyA, ThisDot \o <<"a", ".", "b">>,
      KeyA \o <<".">> \o Length, <<"a", ".", "b", ".">> \o Length,
      AtIndex \o <<" ", "+", " ", "1">>, AtIndex \o <<" ", "+", " ">> \o This }
    \cup { LambdaText(l) : l \in Lambdas }

\* the item expressions of {{#each ...}}
ItemsExpressions == { Items, ThisDot \o Items, This, KeyA \o <<".">> \o KeyB }

\* the templates written between {{#each ...}} and {{/each}}
EachBodies ==
    { Mark(AtIndex) \o <<":">> \o Mark(This) \o <<" ">>,
      RawMark(This) \o Mark(ThisDot \o <<"a", ".", "b">>),
      EachOpen(This) \o Mark(AtIndex) \o Mark(This) \o EachClose \o <<";">>
        \o Mark(AtIndex),
      EachOpen(This) \o IfOpen(This) \o Mark(AtIndex) \o Mark(This) \o IfClose
        \o EachClose \o Mark(This),
      IfOpen(<<"(", "e", "q", " ">> \o AtIndex \o <<" ", "1", ")">>) \o Mark(This) \o IfClose,
      IfOpen(ThisDot \o <<"a", ".", "b">>) \o <<"y">> \o IfClose \o <<".">>,
      EachOpen(ThisDot \o <<"a", ".", "b">>) \o Mark(This) \o EachClose \o <<".">>,
      Mark(AtIndex \o <<" ", "+", " ">> \o This),
      EachOpen(This) \o Mark(This) \o EachClose \o Mark(AtIndex)
        \o EachOpen(This) \o Mark(AtIndex) \o EachClose \o Mark(This) }

\* two Each blocks side by side at the top level, with nodes after each of them
SiblingTemplate ==
    EachOpen(Items) \o Mark(This) \o EachClose \o Mark(ThisDot \o KeyB)
      \o EachOpen(ThisDot \o Items) \o Mark(AtIndex) \o EachClose
      \o Mark(AtIndex \o <<" ", "+", " ", "1">>) \o RawMark(KeyB)

Operators ==
    { <<"e", "q">>, <<"n", "e", "q">>, <<"g", "t">>, <<"g", "t", "e">>, <<"l", "t">>,
      <<"l", "t", "e">>, <<"a", "n", "d">>, <<"o", "r">> }

\* the operands of (<op> <left> <right>)
Operands ==
    { KeyA, KeyB, <<"1">>, <<"'", "<", "b", ">", "&", "'">>, <<"\"", "a", " ", "b", "\"">>,
      <<"a", ".", "b">> }

\* the conditions of {{#if ...}}
Conditions ==
    { <<"(">> \o op \o <<" ">> \o l \o <<" ">> \o r \o <<")">> :
        op \in Operators, l \in {KeyA, <<"a", ".", "b">>}, r \in Operands }
    \cup { KeyA, <<"a", ".", "b", ".", "c">>, This, ThisDot \o <<"a", ".", "b">>,
           ThisDot \o Items \o <<".">> \o Length,
           <<"(", "x", "o", "r", " ", "a", " ", "b", ")">> }

\* {{#if}} and {{#each}} with nothing or only whitespace after the directive word
Blanks == { <<>>, <<" ">>, <<" ", " ", " ">> }
EmptyIf == { Mark(<<"#", "i", "f">> \o ws) : ws \in Blanks }
EmptyEach == { Mark(<<"#", "e", "a", "c", "h">> \o ws) : ws \in Blanks }

\* the templates of Spec
Templates ==
    { <<"H", "i", " ">> \o Mark(e) \o <<"!">> : e \in Expressions }
    \cup { RawMark(e) : e \in Expressions }
    \cup { <<"[">> \o EachOpen(e) \o body \o EachClose \o <<"]">> :
             e \in ItemsExpressions, body \in EachBodies }
    \cup { IfOpen(c) \o <<"y", "e", "s">> \o IfClose \o <<"!">> : c \in Conditions }
    \cup EmptyIf \cup EmptyEach \cup {SiblingTemplate}

\* the outcomes of Math.random().toString(36).substr(2, 9) that the model draws from
MaxLoopIds == 2
LoopIdChars == <<"p", "q", "r", "s">>
LoopIds == { <<LoopIdChars[i]>> : i \in 1..MaxLoopIds }

-----------------------------------------------------------------------------
(* BindingManager, src/unnamed/part_001.  The data object is a value of the *)
(* model; a property that _makeObservable gave a setter is named by its     *)
(* place in the data object (the dotted path from the root to it).  The     *)
(* elements of the model are text inputs and spans, so what an element      *)
(* displays is its value or its textContent.                                *)

\* the elements: two text inputs of the same id and two spans without an id
Elements == {"input1", "input2", "span1", "span2"}

ElementId(element) == IF element \in {"input1", "input2"} THEN <<"f">> ELSE <<>>

TagName(element) == IF element \in {"input1", "input2"} THEN "input" ELSE "span"

\* the data-bind paths and the values of the properties they name
Paths == { KeyA, <<"u", ".", "n">> }
DataValues == { Str(<<"x">>), Str(<<"y">>) }

DataObjects ==
    { Obj(MakeObject(<< <<KeyA, a>>, <<<<"u">>, Obj(MakeObject(<< <<<<"n">>, n>> >>))>> >>)) :
        a \in DataValues, n \in DataValues }

\* `${element.id}-${path}`
BindingId(element, path) == ElementId(element) \o <<"-">> \o path

\* the reduce of _getValue over the keys
RECURSIVE GetValueKeys(_, _)
GetValueKeys(current, keys) ==
    IF keys = <<>> THEN current
    ELSE GetValueKeys(IF Truthy(current) /\ ~IsNullish(current)
                         /\ GetProp(current, Head(keys)) # Undefined
                        THEN GetProp(current, Head(keys)) ELSE Undefined,
                      Tail(keys))

\* _getValue(obj, path)
GetValue(obj, path) == GetValueKeys(obj, SplitOn(path, "."))

\* _updateElement(element, value): what the element displays afterwards
UpdateElement(element, value) == IF IsNullish(value) THEN Str(<<>>) ELSE value

\* updateBoundElements(path, value): the displays after it, from the displays sh
UpdateBoundElements(sh, path, value) ==
    [element \in Elements |->
        IF \E bindingId \in DOMAIN bindings :
               bindings[bindingId].element = element /\ bindings[bindingId].path = path
          THEN UpdateElement(element, value)
          ELSE sh[element]]

\* the place of the property prop of the object at `place`
PlaceOf(place, prop) == IF place = <<>> THEN prop ELSE place \o <<".">> \o prop

\* _makeObservable(obj, prop, fullPath) for the object at `place`: the setters it
\* defines, as <<place of the property, fullPath of its setter>> pairs, those of
\* _makeDeeplyObservable on the property's value included
RECURSIVE MakeObservable(_, _, _, _)
MakeObservable(obj, place, prop, fullPath) ==
    IF ~Truthy(obj) \/ obj.t # "object" THEN {}
    ELSE {<<PlaceOf(place, prop), fullPath>>}
           \cup (IF GetProp(obj, prop).t = "object"
                   THEN UNION { MakeObservable(GetProp(obj, prop), PlaceOf(place, prop), key,
                                               PlaceOf(fullPath, key)) :
                                  key \in DOMAIN GetProp(obj, prop).o }
                   ELSE {})

\* the for loop of _createObserver over the rest of a nested path
RECURSIVE NestedObservers(_, _, _, _)
NestedObservers(current, currentPath, rest, path) ==
    IF rest = <<>> THEN {}
    ELSE IF Truthy(current) /\ TypeofObject(current)
      THEN MakeObservable(current, currentPath, Head(rest), path)
             \cup NestedObservers(GetProp(current, Head(rest)),
                                  PlaceOf(currentPath, Head(rest)), Tail(rest), path)
    ELSE NestedObservers(current, currentPath, Tail(rest), path)

\* _createObserver(data, path): the setters it defines
CreateObserver(obj, path) ==
    IF IsNullish(obj) \/ ~TypeofObject(obj) THEN {}
    ELSE IF Len(SplitOn(path, ".")) = 1 THEN MakeObservable(obj, <<>>, path, path)
    ELSE NestedObservers(GetProp(obj, Head(SplitOn(path, "."))), Head(SplitOn(path, ".")),
                         Tail(SplitOn(path, ".")), path)

\* the setters as a function from place to fullPath
ObserverMap(pairs) ==
    [place \in {pair[1] : pair \in pairs} |-> (CHOOSE pair \in pairs : pair[1] = place)[2]]

\* obj[key] = value
WithProp(obj, key, value) == IF obj.t = "object" THEN Obj((key :> value) @@ obj.o) ELSE obj

\* the reduce of _setValue and its assignment: the object with the property set
RECURSIVE SetKeys(_, _, _)
SetKeys(obj, keys, value) ==
    IF Len(keys) = 1 THEN WithProp(obj, Head(keys), value)
    ELSE WithProp(obj, Head(keys),
                  SetKeys(IF GetProp(obj, Head(keys)) = Undefined THEN Obj(<<>>)
                          ELSE GetProp(obj, Head(keys)),
                          Tail(keys), value))

\* the assignment of value to the property at path, in the state st = [data, shown]:
\* a property with a setter updates the bound elements when the value is a new one
SetValue(st, path, value) ==
    IF path \in DOMAIN observed /\ StrictEquals(GetValue(st.data, path), value) THEN st
    ELSE [data |-> SetKeys(st.data, SplitOn(path, "."), value),
          shown |-> IF path \in DOMAIN observed
                      THEN UpdateBoundElements(st.shown, observed[path], value)
                      ELSE st.shown]

\* the input listeners of an element run in the order they were added
RECURSIVE RunListeners(_, _, _)
RunListeners(paths, st, value) ==
    IF paths = <<>> THEN st
    ELSE RunListeners(Tail(paths), SetValue(st, Head(paths), value), value)

\* the paths whose value differs between the data objects
ChangedPaths(before, after) == { path \in Paths : GetValue(before, path) # GetValue(after, path) }

\* new BindingManager(), with data the object that will be bound
Unbound(d) ==
    /\ bindings = <<>>
    /\ observed = <<>>
    /\ listeners = [element \in Elements |-> <<>>]
    /\ data = d
    /\ shown = [element \in Elements |-> Str(<<>>)]
    /\ bound = {}
    /\ changed = {}

MaxCalls == 4

\* bindElement(element, data, path).  this.observers is never added to, so
\* observers.has(path) is false and _createObserver runs in every call; an input
\* listener of a path the element already has a listener for sets the same value again
\* and is not kept twice.
BindElement(element, path) ==
    /\ calls < MaxCalls
    /\ shown' = [shown EXCEPT ![element] = UpdateElement(element, GetValue(data, path))]
    /\ observed' = ObserverMap(CreateObserver(data, path)) @@ observed
    /\ bindings' = (BindingId(element, path) :> [element |-> element, path |-> path])
                     @@ bindings
    /\ listeners' = IF TagName(element) \in {"input", "textarea", "select"}
                       /\ \A i \in 1..Len(listeners[element]) : listeners[element][i] # path
                      THEN [listeners EXCEPT ![element] = Append(@, path)]
                      ELSE listeners
    /\ bound' = bound \cup {<<element, path>>}
    /\ changed' = {}
    /\ calls' = calls + 1
    /\ UNCHANGED <<data, pipeVars, pageVars>>

\* the data and the displays after an assignment or an input event
Assigned(st) ==
    /\ data' = st.data
    /\ shown' = st.shown
    /\ changed' = ChangedPaths(data, st.data)
    /\ UNCHANGED <<bindings, observed, listeners, bound, calls, pipeVars, pageVars>>

\* the program assigns a value to the property of the data object at path
AssignData(path, value) ==
    /\ path \in Paths
    /\ Assigned(SetValue([data |-> data, shown |-> shown], path, value))

\* the user enters a value in an input element: its listeners call _setValue
InputEvent(element, value) ==
    /\ TagName(element) = "input"
    /\ Assigned(RunListeners(listeners[element],
                             [data |-> data, shown |-> [shown EXCEPT ![element] = value]],
                             value))

\* clear()
Clear ==
    /\ bindings' = <<>>
    /\ bound' = {}
    /\ changed' = {}
    /\ UNCHANGED <<observed, listeners, data, shown, calls, pipeVars, pageVars>>

-----------------------------------------------------------------------------
(* Jframe on elements, src/index.js: render(element, context, enableBinding), *)
(* update(element, newContext) and destroy().  The templates and values of  *)
(* the model hold no data-bind attribute, so _setupBindings finds no        *)
(* element to bind.                                                         *)

\* the container elements of the page
Containers == {"box", "card"}

\* this.parser.parse(this.tokenizer.tokenize(template))
ParseTokenized(t) == IF t.err # "none" THEN Throw(t.err) ELSE Parse(t.tokens)

TreeOf(text) == ParseTokenized(Tokenize(text))

\* the number of Math.random calls of this.compile(text)
LoopCount(text) == IF TreeOf(text).err # "none" THEN 0 ELSE CountEach(TreeOf(text).root.children)

\* this.compiler.compile(ast) of the parsed template
CompileParsed(p, ids) == IF p.err # "none" THEN Throw(p.err) ELSE Compile(p.root, ids)

\* this.renderer.render(compiled, context): [err, html]
RenderCompiled(c, context) ==
    IF c.err # "none" THEN Throw(c.err) ELSE RenderFunction(c.code, context)

Html(r) == IF r.err # "none" THEN Throw(r.err) ELSE [err |-> "none", html |-> Join(r.out)]

\* this.renderer.render(this.compile(text), context), the loop ids being ids
CompileAndRender(text, context, ids) ==
    Html(RenderCompiled(CompileParsed(TreeOf(text), ids), context))

\* { ...context, ...newContext }
Merge(context, newContext) == Obj(newContext.o @@ context.o)

NoCall == [call |-> "none", element |-> "none", did |-> FALSE, template |-> <<>>,
           threw |-> FALSE]

\* new Jframe(), on a page whose containers hold the texts content
NoPage(content) ==
    /\ innerHTML = content
    /\ renderedElements = <<>>
    /\ original = content
    /\ compiled = NoCall

MaxPageCalls == 3

\* the call compiled the template text and threw or not
Called(call, element, text, r) ==
    /\ compiled' = [call |-> call, element |-> element, did |-> TRUE, template |-> text,
                    threw |-> r.err # "none"]
    /\ calls' = calls + 1
    /\ innerHTML' = IF r.err = "none" THEN [innerHTML EXCEPT ![element] = r.html]
                    ELSE innerHTML

\* _renderToElement: the html rendered from the element's innerHTML replaces it and the
\* entry of the element is stored; an Error of compile or render leaves all as it was
RenderedToElement(element, context, enableBinding, r) ==
    /\ Called("render", element, innerHTML[element], r)
    /\ renderedElements' =
         IF r.err = "none"
           THEN (element :> [context |-> context, enableBinding |-> enableBinding,
                             template |-> innerHTML[element]]) @@ renderedElements
           ELSE renderedElements

\* render(target, context, enableBinding) with an element as target
RenderToElement(element, context, enableBinding) ==
    /\ calls < MaxPageCalls
    /\ \E ids \in [1..LoopCount(innerHTML[element]) -> LoopIds] :
         RenderedToElement(element, context, enableBinding,
                           CompileAndRender(innerHTML[element], context, ids))
    /\ UNCHANGED <<original, pipeVars, bindVars>>

\* update of a rendered element: the stored template is rendered with the merged context
Updated(element, updatedContext, r) ==
    /\ Called("update", element, renderedElements[element].template, r)
    /\ renderedElements' =
         IF r.err = "none"
           THEN [renderedElements EXCEPT ![element].context = updatedContext]
           ELSE renderedElements

\* update of an element that has no entry: the Error is thrown
NotRendered(element) ==
    /\ compiled' = [call |-> "update", element |-> element, did |-> FALSE,
                    template |-> <<>>, threw |-> TRUE]
    /\ calls' = calls + 1
    /\ UNCHANGED <<innerHTML, renderedElements>>

\* update(element, newContext)
Update(element, newContext) ==
    /\ calls < MaxPageCalls
    /\ IF element \in DOMAIN renderedElements
         THEN \E ids \in [1..LoopCount(renderedElements[element].template) -> LoopIds] :
                Updated(element, Merge(renderedElements[element].context, newContext),
                        CompileAndRender(renderedElements[element].template,
                                         Merge(renderedElements[element].context, newContext),
                                         ids))
         ELSE NotRendered(element)
    /\ UNCHANGED <<original, pipeVars, bindVars>>

\* destroy(): bindingManager.clear() and renderedElements.clear()
Destroy ==
    /\ bindings' = <<>>
    /\ bound' = {}
    /\ changed' = {}
    /\ renderedElements' = <<>>
    /\ UNCHANGED <<observed, listeners, data, shown, innerHTML, original, compiled, calls,
                   pipeVars>>

-----------------------------------------------------------------------------
(* The engine: Jframe.compile and Renderer.render (src/index.js,            *)
(* src/src/renderer.js), one stage per step.                                *)

Failed(stage, msg) == [stage |-> stage, msg |-> msg]

\* the state before the stage `stage` runs: nothing is built yet but the tokens given
StartAt(t, c, stage, toks) ==
    /\ template = t
    /\ ctx = c
    /\ pc = stage
    /\ tokens = toks
    /\ ast = [type |-> "Root", children |-> <<>>]
    /\ loopIds = <<>>
    /\ code = <<>>
    /\ output = <<>>
    /\ trace = <<>>
    /\ error = NoError

Start(t, c) == StartAt(t, c, "tokenize", <<>>)

\* no element is bound or rendered
Idle ==
    /\ Unbound(Obj(<<>>))
    /\ NoPage([element \in Containers |-> <<>>])
    /\ calls = 0

Init == \E t \in Templates, c \in Contexts : Start(t, c) /\ Idle

\* the outcome r of a stage: its result goes on to the stage `then`, its Error fails
\* the run
Outcome(r, stage, then) ==
    IF r.err = "none" THEN pc' = then /\ error' = error
    ELSE pc' = "failed" /\ error' = Failed(stage, r.err)

Tokenized(r) == tokens' = (IF r.err = "none" THEN r.tokens ELSE tokens)
                /\ Outcome(r, "tokenize", "parse")

\* this.tokenizer.tokenize(template)
DoTokenize ==
    /\ pc = "tokenize"
    /\ Tokenized(Tokenize(template))
    /\ UNCHANGED <<template, ctx, ast, loopIds, code, output, trace>>
    /\ UNCHANGED <<bindVars, pageVars, calls>>

Parsed(r) == ast' = (IF r.err = "none" THEN r.root ELSE ast)
             /\ Outcome(r, "parse", "compile")

\* this.parser.parse(tokens)
DoParse ==
    /\ pc = "parse"
    /\ Parsed(Parse(tokens))
    /\ UNCHANGED <<template, ctx, tokens, loopIds, code, output, trace>>
    /\ UNCHANGED <<bindVars, pageVars, calls>>

Compiled(r) == code' = (IF r.err = "none" THEN r.code ELSE code)
               /\ Outcome(r, "compile", "render")

\* this.compiler.compile(ast), with any outcomes of its Math.random calls
DoCompile ==
    /\ pc = "compile"
    /\ \E ids \in [1..CountEach(ast.children) -> LoopIds] :
         loopIds' = ids /\ Compiled(Compile(ast, ids))
    /\ UNCHANGED <<template, ctx, tokens, ast, output, trace>>
    /\ UNCHANGED <<bindVars, pageVars, calls>>

Rendered(r) == /\ trace' = r.trace
               /\ output' = (IF r.err = "none" THEN Join(r.out) ELSE output)
               /\ Outcome(r, "render", "done")

\* this.renderer.render(compiled, context)
DoRender ==
    /\ pc = "render"
    /\ Rendered(RenderFunction(code, ctx))
    /\ UNCHANGED <<template, ctx, tokens, ast, loopIds, code>>
    /\ UNCHANGED <<bindVars, pageVars, calls>>

Next == DoTokenize \/ DoParse \/ DoCompile \/ DoRender

\* compile(template)(context) for the templates and contexts of the model
Spec == Init /\ [][Next]_vars

-----------------------------------------------------------------------------
(* The BindingManager alone: elements are bound to paths of a data object, *)
(* the program assigns to the data and the user types into the inputs.     *)

\* no template is at work
NoPipeline == StartAt(<<>>, Obj(<<>>), "idle", <<>>)

InitBind ==
    \E d \in DataObjects :
        /\ NoPipeline
        /\ Unbound(d)
        /\ NoPage([element \in Containers |-> <<>>])
        /\ calls = 0

NextBind ==
    \/ \E element \in Elements, path \in Paths : BindElement(element, path)
    \/ \E path \in Paths, value \in DataValues : AssignData(path, value)
    \/ \E element \in Elements, value \in DataValues : InputEvent(element, value)
    \/ Clear

SpecBind == InitBind /\ [][NextBind]_vars

-----------------------------------------------------------------------------
(* Jframe on the containers of a page: they are rendered, updated and the   *)
(* engine destroyed, in any order.                                          *)

\* the contents of the containers before the first render
PageTemplates == { Mark(KeyA), <<"[">> \o Mark(KeyB) \o <<"]">> }

\* the contexts of render: a is a text, a text that reads as a marker, or an opener
PageContexts ==
    { Obj(MakeObject(<< <<KeyA, a>>, <<KeyB, Str(<<"1">>)>> >>)) :
        a \in { Str(<<"x">>), Str(Mark(KeyB)), Str(<<"{", "{">>) } }

\* the contexts of update
NewContexts == { Obj(<<>>), Obj(MakeObject(<< <<KeyA, Str(<<"y">>)>> >>)) }

InitPage ==
    \E content \in [Containers -> PageTemplates] :
        /\ NoPipeline
        /\ Unbound(Obj(<<>>))
        /\ NoPage(content)
        /\ calls = 0

NextPage ==
    \/ \E element \in Containers, context \in PageContexts, enableBinding \in BOOLEAN :
         RenderToElement(element, context, enableBinding)
    \/ \E element \in Containers, newContext \in NewContexts : Update(element, newContext)
    \/ Destroy

SpecPage == InitPage /\ [][NextPage]_vars

-----------------------------------------------------------------------------
(* The Parser alone, over every short token sequence (well nested or not). *)

MaxTokens == 4

TokenKinds ==
    { [type |-> "TEXT", value |-> <<"t">>],
      [type |-> "TEXT", value |-> <<"u">>],
      [type |-> "VAR", expression |-> KeyA],
      [type |-> "RAW", expression |-> KeyB],
      [type |-> "IF_START", condition |-> KeyA],
      [type |-> "IF_START", condition |-> KeyB],
      [type |-> "IF_END"],
      [type |-> "EACH_START", items |-> Items],
      [type |-> "EACH_END"] }

\* the token sequences of at most n tokens
RECURSIVE TokensUpTo(_)
TokensUpTo(n) ==
    IF n = 0 THEN {<<>>}
    ELSE LET shorter == TokensUpTo(n - 1)
         IN  shorter \cup {Append(s, k) : s \in shorter, k \in TokenKinds}

InitBuild ==
    \E toks \in TokensUpTo(MaxTokens) : StartAt(<<>>, Obj(<<>>), "parse", toks) /\ Idle

NextBuild == DoParse

SpecBuild == InitBuild /\ [][NextBuild]_vars

-----------------------------------------------------------------------------
(* The engine over every short string of the characters that matter to the  *)
(* Tokenizer and to the string literals of the generated code.              *)

MaxTemplateLen == 4

TextAlphabet == {"{", "}", "a", "\"", "\\", "\n"}

TextContexts == { Obj(<<>>), Obj(MakeObject(<< <<KeyA, Str(<<"<">>)>> >>)) }

InitText ==
    \E t \in StringsUpTo(TextAlphabet, MaxTemplateLen), c \in TextContexts :
        Start(t, c) /\ Idle

SpecText == InitText /\ [][Next]_vars

-----------------------------------------------------------------------------
(* The Tokenizer alone, over every short string of braces, a name character *)
(* and a blank, and over a few templates that hold directives.              *)

MaxScanLen == 7

ScanAlphabet == {"{", "}", "a", " "}

DirectiveTemplates ==
    { <<"a">> \o IfOpen(KeyA) \o <<"b">> \o IfClose \o <<"c">>,
      EachOpen(KeyA) \o Mark(KeyB) \o <<" ">> \o EachClose,
      <<"{">> \o RawMark(KeyA) \o <<"}">> \o Mark(KeyB),
      <<"{", "{", "/", "a", "}", "}">>,
      <<"{", "{", "#", "i", "f", " ", " ", "}", "}">> }

InitScan ==
    \E t \in StringsUpTo(ScanAlphabet, MaxScanLen) \cup DirectiveTemplates :
        Start(t, Obj(<<>>)) /\ Idle

NextScan == DoTokenize

SpecScan == InitScan /\ [][NextScan]_vars

-----------------------------------------------------------------------------
(* Properties.  They read the ghost variable trace, which holds what the    *)
(* render function did: each output.push with the value pushed, each if     *)
(* with the branch taken, and each loop with its items and iterations.      *)

Done == pc = "done"

FailedAt(stage) == pc = "failed" /\ error.stage = stage

\* the events of output.push(__escape(...)): the Variable nodes at work
EscapePushes ==
    { i \in 1..Len(trace) : trace[i].ev = "push"
                            /\ StartsWith(trace[i].expr, NameEscape \o <<"(">>) }

\* the events of output.push(String(...)): the RawVariable nodes at work
RawPushes ==
    { i \in 1..Len(trace) : trace[i].ev = "push"
                            /\ StartsWith(trace[i].expr, NameString \o <<"(">>) }

\* the entity that stands for a character, and the character itself when it has none
EntityOf(c) ==
    CASE c = "&" -> <<"&", "a", "m", "p", ";">>
      [] c = "<" -> <<"&", "l", "t", ";">>
      [] c = ">" -> <<"&", "g", "t", ";">>
      [] c = "\"" -> <<"&", "q", "u", "o", "t", ";">>
      [] c = "'" -> <<"&", "#", "3", "9", ";">>
      [] OTHER -> <<c>>

\* every character of the text replaced by its entity
RECURSIVE Entities(_)
Entities(text) == IF text = <<>> THEN <<>> ELSE EntityOf(Head(text)) \o Entities(Tail(text))

\* the text has no raw < > " ' and each & in it begins one of the five entities
Neutral(text) ==
    /\ \A i \in 1..Len(text) : text[i] \notin {"<", ">", "\"", "'"}
    /\ \A i \in 1..Len(text) :
         text[i] = "&" => \E c \in {"&", "<", ">", "\"", "'"} :
                             StartsWith(SubSeq(text, i, Len(text)), EntityOf(c))

\* C1: what a Variable node appends is its value's string form with each of & < > " '
\* replaced by its entity (so no raw < > " ' is left and every & begins an entity),
\* and the empty string when the value is null or undefined.
C1_VariableIsEscaped ==
    \A i \in EscapePushes :
        /\ trace[i].piece = (IF IsNullish(trace[i].arg) THEN <<>>
                             ELSE Entities(StringOf(trace[i].arg)))
        /\ Neutral(trace[i].piece)

\* a Variable appended a text in which <, > and & were replaced by their entities
C1_Witness ==
    /\ Done
    /\ \E i \in EscapePushes :
         /\ trace[i].arg = Str(<<"<", "b", ">", "&">>)
         /\ trace[i].piece = <<"&", "l", "t", ";", "b", "&", "g", "t", ";",
                                "&", "a", "m", "p", ";">>
         /\ Includes(output, trace[i].piece)

\* the events at which an each statement evaluated its items
EachEvents == { k \in 1..Len(trace) : trace[k].ev = "each" }

\* the event that ends the loop begun at event k, or 0 when the run stopped before it
EndOf(k) ==
    LET ends == { j \in (k + 1)..Len(trace) :
                    trace[j].ev = "end" /\ trace[j].node = trace[k].node }
    IN  IF ends = {} THEN 0 ELSE SetMin(ends)

\* the index and item of each repetition of the loop begun at event k, in order
RECURSIVE Repetitions(_, _, _)
Repetitions(node, from, to) ==
    IF from > to THEN <<>>
    ELSE (IF trace[from].ev = "iter" /\ trace[from].node = node
            THEN << <<trace[from].index, trace[from].item>> >>
            ELSE <<>>) \o Repetitions(node, from + 1, to)

\* one repetition per element: index i - 1 and element i, for i = 1..n
InOrder(items) == [i \in 1..Len(items) |-> <<Num(i - 1), items[i]>>]

ExampleEach ==
    <<"[">> \o EachOpen(Items) \o Mark(AtIndex) \o <<":">> \o Mark(This) \o <<" ">>
    \o EachClose \o <<"]">>

ExampleItems == Arr(<<Str(<<"a">>), Str(<<"b">>), Str(<<"c">>)>>)

\* C2: an Each whose items are an array of n elements evaluates them once and runs its
\* children exactly n times, for the indexes 0..n-1 in order with the i-th element as
\* the item; {{#each items}}{{@index}}:{{this}} {{/each}} of [a,b,c] is "0:a 1:b 2:c ".
C2_EachRunsInOrder ==
    Done =>
      /\ \A k \in EachEvents :
           IsArray(trace[k].items) =>
             /\ EndOf(k) # 0
             /\ Repetitions(trace[k].node, k + 1, EndOf(k)) = InOrder(trace[k].items.a)
      /\ (template = ExampleEach /\ GetProp(ctx, Items) = ExampleItems)
           => output = <<"[", "0", ":", "a", " ", "1", ":", "b", " ", "2", ":", "c", " ", "]">>

\* the identifiers an expression refers to
RECURSIVE NamesIn(_)
NamesIn(node) ==
    CASE node.k = "id" -> {node.name}
      [] node.k = "member" -> NamesIn(node.obj)
      [] node.k = "un" -> NamesIn(node.arg)
      [] node.k = "bin" -> NamesIn(node.l) \cup NamesIn(node.r)
      [] node.k = "func" -> NamesIn(node.body) \ {node.param}
      [] node.k = "call" ->
            NamesIn(node.callee) \cup UNION { NamesIn(node.args[i]) : i \in 1..Len(node.args) }
      [] OTHER -> {}

\* the expression still has a `this` the Compiler did not translate
RECURSIVE UsesThis(_)
UsesThis(node) ==
    CASE node.k = "this" -> TRUE
      [] node.k = "member" -> UsesThis(node.obj)
      [] node.k = "un" -> UsesThis(node.arg)
      [] node.k = "bin" -> UsesThis(node.l) \/ UsesThis(node.r)
      [] node.k = "func" -> UsesThis(node.body)
      [] node.k = "call" ->
            UsesThis(node.callee) \/ \E i \in 1..Len(node.args) : UsesThis(node.args[i])
      [] OTHER -> FALSE

\* generated expression text in the scope of a loop: no `this` is left in it, and the
\* item and index variables it names are those of that loop
ScopedExpression(text, scope) ==
    \/ scope = <<>>
    \/ /\ ~UsesThis(ParseJs(text).node)
       /\ \A name \in NamesIn(ParseJs(text).node) :
            /\ StartsWith(name, ItemPrefix) => name = scope[1]
            /\ StartsWith(name, IndexPrefix) => name = scope[2]

\* the statements of a loop body (scope = <<itemName, indexName>>) or of the top level
\* (scope = <<>>): an if keeps the scope, an each evaluates its items in the scope
\* around it and opens its own for its body
RECURSIVE ScopedLines(_, _)
ScopedLines(lines, scope) ==
    \A i \in 1..Len(lines) :
        CASE lines[i].op = "push" -> ScopedExpression(lines[i].expr, scope)
          [] lines[i].op = "if" ->
                ScopedExpression(lines[i].cond, scope) /\ ScopedLines(lines[i].body, scope)
          [] lines[i].op = "each" ->
                /\ ScopedExpression(lines[i].items, scope)
                /\ ScopedLines(lines[i].body, <<lines[i].itemName, lines[i].indexName>>)

\* C3: inside Each blocks of any depth every this and @index of a Variable, a
\* RawVariable or an If condition is translated to the item and index variable of the
\* nearest enclosing Each, through any If between them, and the items of a nested Each
\* to those of the Each around it; no variable of an outer loop is used in an inner one.
C3_InnermostScope == ScopedLines(code, <<>>)

\* this.<path> with a plain dotted path
IsThisPath(e) == StartsWith(e, ThisDot) /\ IsPath(Slice(e, 5))

\* every expression of the nodes and the nodes below them is a this.<path>
RECURSIVE OnlyThisPaths(_)
OnlyThisPaths(nodes) ==
    \A i \in 1..Len(nodes) :
        CASE nodes[i].type \in {"Variable", "RawVariable"} -> IsThisPath(nodes[i].expression)
          [] nodes[i].type = "If" ->
                IsThisPath(nodes[i].condition) /\ OnlyThisPaths(nodes[i].children)
          [] nodes[i].type = "Each" ->
                IsThisPath(nodes[i].items) /\ OnlyThisPaths(nodes[i].children)
          [] OTHER -> TRUE

\* C4: a template whose expressions are all of the form this.<path> (as a Variable, a
\* RawVariable, an If condition or an Each items expression, inside a loop or not)
\* compiles, and rendering it never raises, whatever is missing, null or no object
\* along a path.
C4_ThisPathNeverRaises ==
    OnlyThisPaths(ast.children) => ~FailedAt("compile") /\ ~FailedAt("render")

\* what the path names in the value: the value reached, and "not found" (undefined)
\* once a step is taken from something that is no object or lacks the key
RECURSIVE Resolve(_, _)
Resolve(v, keys) ==
    IF keys = <<>> THEN v
    ELSE IF v.t = "object" /\ Head(keys) \in DOMAIN v.o
      THEN Resolve(v.o[Head(keys)], Tail(keys))
    ELSE Undefined

\* some prefix of the path is missing or null in the context, or is a value that is
\* no object with more of the path to go
PrefixMissing(context, path) ==
    LET keys == SplitOn(path, ".")
    IN  \E n \in 1..Len(keys) :
          \/ IsNullish(Resolve(context, SubSeq(keys, 1, n)))
          \/ n < Len(keys) /\ ~TypeofObject(Resolve(context, SubSeq(keys, 1, n)))

PlainPaths == { e \in Expressions : IsPath(e) /\ ~StartsWith(e, This) }

VariableTemplate(e) == <<"H", "i", " ">> \o Mark(e) \o <<"!">>

\* C5: for a plain dotted identifier path p, {{p}} never raises, and renders as the
\* empty string when a prefix of p is missing, null or no object in the context.
C5_MissingPathIsEmpty ==
    \A p \in PlainPaths :
        template = VariableTemplate(p) =>
          /\ pc # "failed"
          /\ (Done /\ PrefixMissing(ctx, p)) => output = <<"H", "i", " ", "!">>

\* C6: what a RawVariable node appends is its value's string form as it is, and the
\* empty string when the value is null or undefined.
C6_RawVariableNullIsEmpty ==
    \A i \in RawPushes :
        trace[i].piece = (IF IsNullish(trace[i].arg) THEN <<>> ELSE StringOf(trace[i].arg))

\* 'text' or "text"
IsQuoted(operand) ==
    Len(operand) >= 2
    /\ \E q \in {"'", "\""} : operand[1] = q /\ operand[Len(operand)] = q

\* the value an operand of a comparison stands for: the text of a quoted run, the
\* number of a numeral, and otherwise what the path names in the context
OperandValue(operand, context) ==
    IF IsQuoted(operand) THEN Str(SubSeq(operand, 2, Len(operand) - 1))
    ELSE IF IsNumeric(operand) THEN StringToNumber(operand)
    ELSE Resolve(context, SplitOn(operand, "."))

\* the operator that `op` maps to, applied to the two values, is truthy
Holds(op, l, r) ==
    CASE op = <<"e", "q">> -> StrictEquals(l, r)
      [] op = <<"n", "e", "q">> -> ~StrictEquals(l, r)
      [] op = <<"g", "t">> -> LessThan(r, l)
      [] op = <<"g", "t", "e">> -> LessOrEqual(r, l)
      [] op = <<"l", "t">> -> LessThan(l, r)
      [] op = <<"l", "t", "e">> -> LessOrEqual(l, r)
      [] op = <<"a", "n", "d">> -> Truthy(l) /\ Truthy(r)
      [] op = <<"o", "r">> -> Truthy(l) \/ Truthy(r)

Comparison(op, l, r) == <<"(">> \o op \o <<" ">> \o l \o <<" ">> \o r \o <<")">>

IfTemplate(c) == IfOpen(c) \o <<"y", "e", "s">> \o IfClose \o <<"!">>

\* C7: for a condition (<op> <left> <right>) with op among eq, neq, gt, gte, lt, lte,
\* and, or, whose operands are each a quoted run (spaces in it or not), a numeral or a
\* path, the code is generated, and the children of the If are rendered exactly when
\* the operator that op maps to is truthy of the two operand values.
C7_ComparisonOperands ==
    \A op \in Operators, l \in {KeyA, <<"a", ".", "b">>}, r \in Operands :
        template = IfTemplate(Comparison(op, l, r)) =>
          /\ pc # "failed"
          /\ Done => output = (IF Holds(op, OperandValue(l, ctx), OperandValue(r, ctx))
                                THEN <<"y", "e", "s", "!">> ELSE <<"!">>)

\* nodes that by themselves cannot raise: text, {{this}}, {{@index}}, {{#if this}} and
\* {{#each items}} or {{#each this}} around such nodes
RECURSIVE PlainNodes(_)
PlainNodes(nodes) ==
    \A i \in 1..Len(nodes) :
        CASE nodes[i].type \in {"Variable", "RawVariable"} ->
                nodes[i].expression \in {This, AtIndex}
          [] nodes[i].type = "If" ->
                nodes[i].condition = This /\ PlainNodes(nodes[i].children)
          [] nodes[i].type = "Each" ->
                nodes[i].items \in {Items, This} /\ PlainNodes(nodes[i].children)
          [] OTHER -> TRUE

\* C8: an Each whose items are no array (missing, null, a number, an object) appends
\* nothing and raises nothing, and the rendering goes on after it; an Each whose items
\* are an array runs over its elements.
C8_EachOfNonArray ==
    /\ PlainNodes(ast.children) => ~FailedAt("render")
    /\ \A k \in EachEvents :
         /\ k < Len(trace)
         /\ IF IsArray(trace[k].items) /\ trace[k].items.a # <<>>
              THEN trace[k + 1] = [ev |-> "iter", node |-> trace[k].node,
                                   index |-> Num(0), item |-> trace[k].items.a[1]]
              ELSE trace[k + 1] = [ev |-> "end", node |-> trace[k].node]

UnclosedIf == "Unclosed {{#if}} directive"
UnclosedEach == "Unclosed {{#each}} directive"
UnexpectedTokens == "Unexpected tokens at end of template"

\* the tokens read from the i-th on with the kinds of the blocks still open, innermost
\* first: "well nested", or the error of the first token (or the end) that breaks the
\* nesting
RECURSIVE Nesting(_, _, _)
Nesting(toks, i, open) ==
    IF i > Len(toks)
      THEN IF open = <<>> THEN "well nested"
           ELSE IF Head(open) = "If" THEN UnclosedIf ELSE UnclosedEach
    ELSE CASE toks[i].type = "IF_START" -> Nesting(toks, i + 1, <<"If">> \o open)
           [] toks[i].type = "EACH_START" -> Nesting(toks, i + 1, <<"Each">> \o open)
           [] toks[i].type \in {"IF_END", "EACH_END"} ->
                 IF open = <<>> THEN UnexpectedTokens
                 ELSE IF Head(open) = (IF toks[i].type = "IF_END" THEN "If" ELSE "Each")
                   THEN Nesting(toks, i + 1, Tail(open))
                 ELSE IF Head(open) = "If" THEN UnclosedIf ELSE UnclosedEach
           [] OTHER -> Nesting(toks, i + 1, open)

\* C9: the Parser succeeds exactly on the well nested token sequences.  On any other it
\* fails and leaves no tree: with the Unclosed {{#if}} or Unclosed {{#each}} error when
\* an open block reaches the end of the tokens or a closer of the other kind, and with
\* the unexpected tokens error when a closer stands at the top level.
C9_BuildIffWellNested ==
    pc # "parse" =>
      IF Nesting(tokens, 1, <<>>) = "well nested"
        THEN pc = "compile" /\ error = NoError /\ ast.type = "Root"
        ELSE /\ pc = "failed"
             /\ error = Failed("parse", Nesting(tokens, 1, <<>>))
             /\ ast = [type |-> "Root", children |-> <<>>]

\* an open Each met the closer of an If after a block that was closed well, and the
\* Parser failed with the Unclosed {{#each}} error
C9_Witness ==
    /\ pc = "failed"
    /\ error = Failed("parse", UnclosedEach)
    /\ Len(tokens) = 4
    /\ tokens[1].type = "IF_START" /\ tokens[2].type = "IF_END"
    /\ tokens[3].type = "EACH_START" /\ tokens[4].type = "IF_END"

\* C10: a template without the opener {{ (the empty one and those with single braces
\* among them) compiles, and rendering it with any context returns the template.
C10_TextIsUnchanged ==
    ~Includes(template, <<"{", "{">>) =>
      /\ pc # "failed"
      /\ Done => output = template

\* a template of single braces, a quote and a backslash came out as it went in
C10_Witness ==
    /\ Done
    /\ template = <<"{", "\"", "\\", "}">>
    /\ output = template

\* the outcome of rendering the function of another compile pass, one whose loop ids
\* are ids, with the same context
OtherPass(ids) == RenderFunction(Compile(ast, ids).code, ctx)

\* C11: two compile passes of one template, whatever loop ids each draws, give render
\* functions that return the same string (or both raise) for the same context.
C11_CompileTwiceSameOutput ==
    (Done \/ FailedAt("render")) =>
      \A ids \in [1..CountEach(ast.children) -> LoopIds] :
          IF Done THEN OtherPass(ids).err = "none" /\ Join(OtherPass(ids).out) = output
          ELSE OtherPass(ids).err # "none"

\* no `this` is left in the expressions generated inside a loop (inLoop), at any depth
RECURSIVE ThisIsSubstituted(_, _)
ThisIsSubstituted(lines, inLoop) ==
    \A i \in 1..Len(lines) :
        CASE lines[i].op = "push" -> inLoop => ~UsesThis(ParseJs(lines[i].expr).node)
          [] lines[i].op = "if" ->
                /\ inLoop => ~UsesThis(ParseJs(lines[i].cond).node)
                /\ ThisIsSubstituted(lines[i].body, inLoop)
          [] lines[i].op = "each" ->
                /\ inLoop => ~UsesThis(ParseJs(lines[i].items).node)
                /\ ThisIsSubstituted(lines[i].body, TRUE)

\* C12: in the expressions the Compiler generates inside a loop every this and
\* this.<path>, leading or inside the expression, has become the loop's item variable:
\* the generated text has no this left.
C12_ThisIsSubstituted == ThisIsSubstituted(code, FALSE)

\* function(param) { return body }
FunctionText(param, body) ==
    <<"f", "u", "n", "c", "t", "i", "o", "n", "(">> \o param
      \o <<")", " ", "{", " ", "r", "e", "t", "u", "r", "n", " ">> \o body \o <<" ", "}">>

\* the expression of a lambda with the shorthand rewritten and the text around it kept
RewrittenLambda(l) == l.before \o FunctionText(l.param, l.body) \o l.after

\* C13: a lambda shorthand param => body, alone or as the argument of a method call,
\* is rewritten into function(param) { return body } with the text after the lambda
\* left outside the function, and the generation succeeds.
C13_LambdaIsRewritten ==
    \A l \in Lambdas :
        template = VariableTemplate(LambdaText(l)) =>
          /\ ~FailedAt("compile")
          /\ pc \in {"render", "done"} =>
               \E i \in 1..Len(code) :
                   /\ code[i].op = "push"
                   /\ code[i].expr = NameEscape \o <<"(">> \o RewrittenLambda(l) \o <<")">>

IfNeedsCondition == "If directive requires a condition"
EachNeedsItems == "Each directive requires an items expression"

\* C14: a marker that holds #if or #each and nothing but whitespace after it makes the
\* Tokenizer fail with the directive's error; no tokens are returned for it.
C14_EmptyDirectiveFails ==
    /\ (template \in EmptyIf /\ pc # "tokenize") =>
         error = Failed("tokenize", IfNeedsCondition) /\ tokens = <<>>
    /\ (template \in EmptyEach /\ pc # "tokenize") =>
         error = Failed("tokenize", EachNeedsItems) /\ tokens = <<>>

\* C15: when a step changes the value at a path, by an assignment to the data object
\* or by an input event, every element bound to that path since the last clear
\* displays the new value afterwards, elements of the same id or without an id too.
C15_BoundElementsFollow ==
    \A path \in changed :
        \A element \in Elements :
            <<element, path>> \in bound =>
              shown[element] = UpdateElement(element, GetValue(data, path))

\* the step is a call of render or update on a container
PageCall == calls' = calls + 1 /\ compiled'.call \in {"render", "update"}

\* C16: whenever render or update compiles a template for an element, the text it
\* compiles is the content the element had before its first render, never an output of
\* an earlier render; and update of an element that has no entry (never rendered, or not
\* since the last destroy) throws, compiles nothing and leaves the entries and the
\* elements as they were.
C16_RerenderFromOriginal ==
    [][PageCall =>
         /\ compiled'.did => compiled'.template = original[compiled'.element]
         /\ (compiled'.call = "update" /\ compiled'.element \notin DOMAIN renderedElements) =>
              /\ compiled'.threw /\ ~compiled'.did
              /\ renderedElements' = renderedElements
              /\ innerHTML' = innerHTML]_vars

\* the loops of the generated code, outer before inner and in template order
RECURSIVE EachLines(_)
EachLines(lines) ==
    IF lines = <<>> THEN <<>>
    ELSE (CASE Head(lines).op = "each" -> <<Head(lines)>> \o EachLines(Head(lines).body)
            [] Head(lines).op = "if" -> EachLines(Head(lines).body)
            [] OTHER -> <<>>)
         \o EachLines(Tail(lines))

\* C17: in the code of one compile pass any two Each nodes, side by side or one inside
\* the other, have different item, index and array variable names, whatever the name
\* generator returned.
C17_LoopNamesAreDistinct ==
    \A i, j \in 1..Len(EachLines(code)) :
        i # j => /\ EachLines(code)[i].itemName # EachLines(code)[j].itemName
                 /\ EachLines(code)[i].indexName # EachLines(code)[j].indexName
                 /\ EachLines(code)[i].arrayName # EachLines(code)[j].arrayName

\* the expressions whose translation is spelled out below
FrameExpressions ==
    { This, AtIndex, AtIndex \o <<" ", "+", " ", "1">>, KeyA, KeyB, Items,
      ThisDot \o KeyB, ThisDot \o Items, ThisDot \o <<"a", ".", "b">> }

\* the access code of such an expression in a scope: <<>> at the top level, where this
\* is the context and @index is 0, and <<itemName, indexName>> in a loop
ExpectedAccess(e, scope) ==
    CASE e = This -> IF scope = <<>> THEN NameCtx ELSE scope[1]
      [] e = AtIndex -> IF scope = <<>> THEN <<"0">> ELSE scope[2]
      [] e = AtIndex \o <<" ", "+", " ", "1">> ->
            (IF scope = <<>> THEN <<"0">> ELSE scope[2]) \o <<" ", "+", " ", "1">>
      [] StartsWith(e, ThisDot) ->
            (IF scope = <<>> THEN NameCtx ELSE scope[1]) \o <<".">> \o Slice(e, 5)
      [] OTHER -> NameGet \o <<"(", "c", "t", "x", ",", " ", "\"">> \o e \o <<"\"", ")">>

\* the statement generated for the node is its translation in the scope
TranslatedIn(node, line, scope) ==
    CASE node.type = "Variable" /\ node.expression \in FrameExpressions ->
            line.expr = NameEscape \o <<"(">> \o ExpectedAccess(node.expression, scope) \o <<")">>
      [] node.type = "RawVariable" /\ node.expression \in FrameExpressions ->
            line.expr = NameString \o <<"(">> \o ExpectedAccess(node.expression, scope) \o <<")">>
      [] node.type = "Each" /\ node.items \in FrameExpressions ->
            line.items = ExpectedAccess(node.items, scope)
      [] OTHER -> TRUE

\* every node that follows an Each among its siblings is translated in the scope of
\* the nodes around it; the body of an If keeps the scope and the body of an Each has
\* the scope of that Each
RECURSIVE FrameKept(_, _, _)
FrameKept(nodes, lines, scope) ==
    /\ Len(lines) = Len(nodes)
    /\ \A i \in 1..Len(nodes) :
         /\ (\E j \in 1..(i - 1) : nodes[j].type = "Each") =>
              TranslatedIn(nodes[i], lines[i], scope)
         /\ CASE nodes[i].type = "If" -> FrameKept(nodes[i].children, lines[i].body, scope)
              [] nodes[i].type = "Each" ->
                    FrameKept(nodes[i].children, lines[i].body,
                              <<lines[i].itemName, lines[i].indexName>>)
              [] OTHER -> TRUE

\* C18: generating an Each leaves the scope around it as it was.  The nodes after the
\* Each are translated in the scope that held before it (at the top level this is the
\* context and @index is 0), the items of a following Each too, and the top level of
\* every pass has no loop scope.
C18_EachKeepsScope ==
    (pc \in {"render", "done"} \/ FailedAt("render")) => FrameKept(ast.children, code, <<>>)

\* two loops side by side at the top level got different names, and the nodes after
\* each of them were translated with this as the context and @index as 0
C18_Witness ==
    /\ template = SiblingTemplate
    /\ Done
    /\ loopIds[1] # loopIds[2]
    /\ code[2].expr = NameEscape \o <<"(", "c", "t", "x", ".", "b", ")">>
    /\ code[3].items = <<"c", "t", "x", ".", "i", "t", "e", "m", "s">>
    /\ code[4].expr = NameEscape \o <<"(", "0", " ", "+", " ", "1", ")">>

\* the tokens of a tree in pre-order: a Text, Variable or RawVariable node is its own
\* token, an If or Each node its open token, its children and its close token
RECURSIVE Flatten(_)
Flatten(nodes) ==
    IF nodes = <<>> THEN <<>>
    ELSE (CASE Head(nodes).type = "Text" -> <<[type |-> "TEXT", value |-> Head(nodes).value]>>
            [] Head(nodes).type = "Variable" ->
                  <<[type |-> "VAR", expression |-> Head(nodes).expression]>>
            [] Head(nodes).type = "RawVariable" ->
                  <<[type |-> "RAW", expression |-> Head(nodes).expression]>>
            [] Head(nodes).type = "If" ->
                  <<[type |-> "IF_START", condition |-> Head(nodes).condition]>>
                    \o Flatten(Head(nodes).children) \o <<[type |-> "IF_END"]>>
            [] Head(nodes).type = "Each" ->
                  <<[type |-> "EACH_START", items |-> Head(nodes).items]>>
                    \o Flatten(Head(nodes).children) \o <<[type |-> "EACH_END"]>>)
         \o Flatten(Tail(nodes))

\* C19: the tree the Parser returns for a token sequence flattens back to exactly that
\* sequence: no token is lost, doubled, moved or put in another block.
C19_TreeFlattensToTokens == pc = "compile" => Flatten(ast.children) = tokens

\* an If around an Each, the one after the other's opener, was parsed into a tree of
\* that shape
C19_Witness ==
    /\ pc = "compile"
    /\ tokens = <<[type |-> "IF_START", condition |-> KeyB],
                  [type |-> "EACH_START", items |-> Items],
                  [type |-> "EACH_END"], [type |-> "IF_END"]>>
    /\ Len(ast.children) = 1
    /\ ast.children[1].type = "If"
    /\ Len(ast.children[1].children) = 1
    /\ ast.children[1].children[1] = [type |-> "Each", items |-> Items, children |-> <<>>]

-----------------------------------------------------------------------------
\* what a token carries of the template: its text, its expression, or its directive
Content(token) ==
    CASE token.type = "TEXT" -> token.value
      [] token.type \in {"VAR", "RAW"} -> token.expression
      [] token.type = "IF_START" -> token.condition
      [] token.type = "EACH_START" -> token.items
      [] token.type = "IF_END" -> <<"/", "i", "f">>
      [] token.type = "EACH_END" -> <<"/", "e", "a", "c", "h">>

\* the contents of toks are found in t one after the other, from `from` on
RECURSIVE InTemplateOrder(_, _, _)
InTemplateOrder(t, toks, from) ==
    IF toks = <<>> THEN TRUE
    ELSE LET found == IndexOf(t, Content(Head(toks)), from)
         IN  /\ found # -1
             /\ InTemplateOrder(t, Tail(toks), found + Len(Content(Head(toks))))

\* C20: for every template that scans without error, no Text token is empty, no two
\* Text tokens are adjacent, no Text value contains the opener {{, the tokens are in
\* template order, and the empty template gives the empty sequence
C20_TextTokensAreMaximal ==
    (pc = "parse") =>
        /\ \A i \in 1..Len(tokens) :
             tokens[i].type = "TEXT" =>
                 /\ tokens[i].value # <<>>
                 /\ ~Includes(tokens[i].value, <<"{", "{">>)
        /\ \A i \in 1..(Len(tokens) - 1) :
             ~(tokens[i].type = "TEXT" /\ tokens[i + 1].type = "TEXT")
        /\ InTemplateOrder(template, tokens, 0)
        /\ (template = <<>> => tokens = <<>>)

\* a text, a marker and a text again were scanned
C20_Witness ==
    /\ pc = "parse"
    /\ Len(tokens) = 3
    /\ tokens[1].type = "TEXT"
    /\ tokens[2] = [type |-> "VAR", expression |-> KeyA]
    /\ tokens[3].type = "TEXT"

=============================================================================
